---------------------------- MODULE Spec2Model ----------------------------
(***************************************************************************)
(* PhysicalWallEscrow (contracts/contracts/PhysicalWallEscrow.sol) as a    *)
(* state machine.  One ledger serves several bookings; every external      *)
(* entry point is one action that covers all of its revert branches and    *)
(* its success branch.  The outbound transfer of _release is an external   *)
(* call: the handler is suspended in a frame on `stack` while the          *)
(* recipient runs, may call back into the ledger, and finally accepts or   *)
(* refuses the value.  A refusal reverts everything the frame did.         *)
(***************************************************************************)
EXTENDS Integers, Sequences, FiniteSets, TLC

\* ---------------------------------------------------------------- bounds
MaxAddr    == 3      \* non-null addresses 1..MaxAddr
MaxDepth   == 2      \* nested external calls in flight
MaxSec     == 1      \* one-second ticks taken inside a window period
MaxWindows == 1      \* dispute windows the clock runs on after the last deadline
StartTime  == 1      \* block.timestamp of the first block considered
AmountBits == 2      \* width of the amount field; uint96 in the contract

\* ------------------------------------------------------ program constants
DAY                    == 86400
DEFAULT_PROOF_DEADLINE == 14 * DAY
DEFAULT_DISPUTE_WINDOW == 7 * DAY
MAX_UINT96             == 2^AmountBits - 1   \* type(uint96).max
NullAddress            == 0

\* the narrowing casts of fundBooking
\* mutant: the cast narrows to a type one bit short
uint96_OneBitShort(v) == v % ((MAX_UINT96 + 1) \div 2)

uint96(v) == v % (MAX_UINT96 + 1)

BookingIds == {1, 2}
Addresses  == 1..MaxAddr
\* bytes32 arguments: the zero hash and two others
ZeroHash   == 0
HashA      == 1
HashB      == 2
Hashes     == {ZeroHash, HashA}
\* msg.value of a funding call: nothing, the smallest and the largest
\* amount that fit uint96, and the first that does not
Values     == {0, 1, MAX_UINT96, MAX_UINT96 + 1}

\* ------------------------------------------------------------ BookingState
Funded         == "Funded"
ProofSubmitted == "ProofSubmitted"
Approved       == "Approved"
Rejected       == "Rejected"
Expired        == "Expired"
TerminalStates == {Approved, Rejected, Expired}

\* the value every mapping slot holds before it is written
ZeroBooking ==
  [advertiser |-> NullAddress, amount |-> 0,
   wallOwner |-> NullAddress, fundedAt |-> 0, proofDeadlineSec |-> 0,
   installer |-> NullAddress, proofSubmittedAt |-> 0, state |-> Funded,
   disputeWindowSec |-> 0, proofContentHash |-> 0, metadataHash |-> 0]

VARIABLES
  bookings,   \* mapping(bytes32 => Booking)
  balance,    \* address(this).balance
  events,     \* per bookingId (indexed topic): the events emitted, in order
  transfers,  \* per bookingId: the value transfers sent by _release
  now,        \* block.timestamp
  stack,      \* suspended _release calls, innermost last
  last,       \* the most recent call and its outcome
  chainLogs,  \* the logs of the contract on the chain, in block order
  head,       \* the number of the latest block
  chainEvent, \* the rows of the indexer's event store
  dbStatus,   \* the status column of the indexer's booking rows
  disputeDeadline, \* the disputeDeadline column of the booking rows
  run         \* the execution of POST /api/chain/sync in progress, if any

\* the indexer and the chain it reads
syncVars == <<chainLogs, head, chainEvent, dbStatus, disputeDeadline, run>>

vars == <<bookings, balance, events, transfers, now, stack, last,
          chainLogs, head, chainEvent, dbStatus, disputeDeadline, run>>

\* everything a revert restores
World == [bookings |-> bookings, balance |-> balance,
          events |-> events, transfers |-> transfers]

Depth == Len(stack)

Outcome(op, id, caller, err) ==
  [op |-> op, id |-> id, caller |-> caller, err |-> err, depth |-> Depth]

\* no call has been made in the current block yet
NoCall == [op |-> "none", id |-> 0, caller |-> NullAddress,
           err |-> "none", depth |-> 0]

\* ------------------------------------------------------------------ guards
\* mutant: the inState modifier lets every state pass
InStateErr_AnyState(id, expected) == "ok"

InStateErr(id, expected) ==
  IF bookings[id].state # expected THEN "InvalidState" ELSE "ok"

\* mutant: the msg.value == 0 check is missing
fundBookingErr_NoZeroCheck(id, wallOwner, installer, value) ==
  IF bookings[id].advertiser # NullAddress THEN "AlreadyExists"
  ELSE IF wallOwner = NullAddress THEN "Unauthorized"
  ELSE IF installer = NullAddress THEN "Unauthorized"
  ELSE IF value > MAX_UINT96 THEN "ZeroValue"
  ELSE "ok"

\* mutant: the bookings[bookingId].advertiser != address(0) check is missing
fundBookingErr_NoExistsCheck(id, wallOwner, installer, value) ==
  IF value = 0 THEN "ZeroValue"
  ELSE IF wallOwner = NullAddress THEN "Unauthorized"
  ELSE IF installer = NullAddress THEN "Unauthorized"
  ELSE IF value > MAX_UINT96 THEN "ZeroValue"
  ELSE "ok"

\* mutant: the msg.value > type(uint96).max check is missing
fundBookingErr_NoOverflowCheck(id, wallOwner, installer, value) ==
  IF value = 0 THEN "ZeroValue"
  ELSE IF bookings[id].advertiser # NullAddress THEN "AlreadyExists"
  ELSE IF wallOwner = NullAddress THEN "Unauthorized"
  ELSE IF installer = NullAddress THEN "Unauthorized"
  ELSE "ok"

fundBookingErr(id, wallOwner, installer, value) ==
  IF value = 0 THEN "ZeroValue"
  ELSE IF bookings[id].advertiser # NullAddress THEN "AlreadyExists"
  ELSE IF wallOwner = NullAddress THEN "Unauthorized"
  ELSE IF installer = NullAddress THEN "Unauthorized"
  ELSE IF value > MAX_UINT96 THEN "ZeroValue"
  ELSE "ok"

\* mutant: submitProof without the inState(Funded) modifier
submitProofErr_NoStateCheck(id, caller) ==
  IF caller # bookings[id].installer THEN "Unauthorized"
  ELSE IF now > bookings[id].fundedAt + bookings[id].proofDeadlineSec
       THEN "ProofDeadlineMissed"
  ELSE "ok"

\* mutant: the proof deadline is exclusive (>= for >)
submitProofErr_DeadlineExclusive(id, caller) ==
  IF InStateErr(id, Funded) # "ok" THEN InStateErr(id, Funded)
  ELSE IF caller # bookings[id].installer THEN "Unauthorized"
  ELSE IF now >= bookings[id].fundedAt + bookings[id].proofDeadlineSec
       THEN "ProofDeadlineMissed"
  ELSE "ok"

\* mutant: submitProof is also let through on a booking that has proof
submitProofErr_AllowsResubmit(id, caller) ==
  IF bookings[id].state \notin {Funded, ProofSubmitted} THEN "InvalidState"
  ELSE IF caller # bookings[id].installer THEN "Unauthorized"
  ELSE IF now > bookings[id].fundedAt + bookings[id].proofDeadlineSec
       THEN "ProofDeadlineMissed"
  ELSE "ok"

submitProofErr(id, caller) ==
  IF InStateErr(id, Funded) # "ok" THEN InStateErr(id, Funded)
  ELSE IF caller # bookings[id].installer THEN "Unauthorized"
  ELSE IF now > bookings[id].fundedAt + bookings[id].proofDeadlineSec
       THEN "ProofDeadlineMissed"
  ELSE "ok"

\* mutant: approveProof without the msg.sender check
approveProofErr_NoCallerCheck(id, caller) ==
  IF InStateErr(id, ProofSubmitted) # "ok" THEN InStateErr(id, ProofSubmitted)
  ELSE "ok"

\* mutant: approveProof without the inState(ProofSubmitted) modifier
approveProofErr_NoStateCheck(id, caller) ==
  IF caller # bookings[id].advertiser THEN "Unauthorized"
  ELSE "ok"

\* mutant: approveProof is closed with the dispute window
approveProofErr_WindowGate(id, caller) ==
  IF InStateErr(id, ProofSubmitted) # "ok" THEN InStateErr(id, ProofSubmitted)
  ELSE IF caller # bookings[id].advertiser THEN "Unauthorized"
  ELSE IF now > bookings[id].proofSubmittedAt + bookings[id].disputeWindowSec
       THEN "DisputeWindowClosed"
  ELSE "ok"

approveProofErr(id, caller) ==
  IF InStateErr(id, ProofSubmitted) # "ok" THEN InStateErr(id, ProofSubmitted)
  ELSE IF caller # bookings[id].advertiser THEN "Unauthorized"
  ELSE "ok"

\* mutant: rejectProof without the dispute window test
rejectProofErr_NoWindowCheck(id, caller) ==
  IF InStateErr(id, ProofSubmitted) # "ok" THEN InStateErr(id, ProofSubmitted)
  ELSE IF caller # bookings[id].advertiser THEN "Unauthorized"
  ELSE "ok"

\* mutant: rejectProof checks msg.sender before the state
rejectProofErr_CallerFirst(id, caller) ==
  IF caller # bookings[id].advertiser THEN "Unauthorized"
  ELSE IF InStateErr(id, ProofSubmitted) # "ok" THEN InStateErr(id, ProofSubmitted)
  ELSE IF now > bookings[id].proofSubmittedAt + bookings[id].disputeWindowSec
       THEN "DisputeWindowClosed"
  ELSE "ok"

rejectProofErr(id, caller) ==
  IF InStateErr(id, ProofSubmitted) # "ok" THEN InStateErr(id, ProofSubmitted)
  ELSE IF caller # bookings[id].advertiser THEN "Unauthorized"
  ELSE IF now > bookings[id].proofSubmittedAt + bookings[id].disputeWindowSec
       THEN "DisputeWindowClosed"
  ELSE "ok"

\* mutant: claimAfterTimeout without the inState(ProofSubmitted) modifier
claimAfterTimeoutErr_NoStateCheck(id, caller) ==
  IF now <= bookings[id].proofSubmittedAt + bookings[id].disputeWindowSec
  THEN "DisputeWindowOpen"
  ELSE "ok"

\* mutant: claimAfterTimeout restricted to the wallOwner
claimAfterTimeoutErr_OnlyWallOwner(id, caller) ==
  IF InStateErr(id, ProofSubmitted) # "ok" THEN InStateErr(id, ProofSubmitted)
  ELSE IF caller # bookings[id].wallOwner THEN "Unauthorized"
  ELSE IF now <= bookings[id].proofSubmittedAt + bookings[id].disputeWindowSec
       THEN "DisputeWindowOpen"
  ELSE "ok"

\* mutant: claimAfterTimeout is open from the last second of the window on
claimAfterTimeoutErr_AtBoundary(id, caller) ==
  IF InStateErr(id, ProofSubmitted) # "ok" THEN InStateErr(id, ProofSubmitted)
  ELSE IF now < bookings[id].proofSubmittedAt + bookings[id].disputeWindowSec
       THEN "DisputeWindowOpen"
  ELSE "ok"

claimAfterTimeoutErr(id, caller) ==
  IF InStateErr(id, ProofSubmitted) # "ok" THEN InStateErr(id, ProofSubmitted)
  ELSE IF now <= bookings[id].proofSubmittedAt + bookings[id].disputeWindowSec
       THEN "DisputeWindowOpen"
  ELSE "ok"

\* mutant: reclaimExpiredBooking tests the deadline before msg.sender
reclaimExpiredBookingErr_TimeFirst(id, caller) ==
  IF InStateErr(id, Funded) # "ok" THEN InStateErr(id, Funded)
  ELSE IF now <= bookings[id].fundedAt + bookings[id].proofDeadlineSec
       THEN "ProofDeadlineNotReached"
  ELSE IF caller # bookings[id].advertiser THEN "Unauthorized"
  ELSE "ok"

\* mutant: reclaimExpiredBooking is open from the last second of the deadline on
reclaimExpiredBookingErr_AtBoundary(id, caller) ==
  IF InStateErr(id, Funded) # "ok" THEN InStateErr(id, Funded)
  ELSE IF caller # bookings[id].advertiser THEN "Unauthorized"
  ELSE IF now < bookings[id].fundedAt + bookings[id].proofDeadlineSec
       THEN "ProofDeadlineNotReached"
  ELSE "ok"

reclaimExpiredBookingErr(id, caller) ==
  IF InStateErr(id, Funded) # "ok" THEN InStateErr(id, Funded)
  ELSE IF caller # bookings[id].advertiser THEN "Unauthorized"
  ELSE IF now <= bookings[id].fundedAt + bookings[id].proofDeadlineSec
       THEN "ProofDeadlineNotReached"
  ELSE "ok"

\* ------------------------------------------------------------------ events
BookingFundedEvent(advertiser, wallOwner, installer, amount, metadataHash) ==
  [name |-> "BookingFunded", advertiser |-> advertiser, wallOwner |-> wallOwner,
   installer |-> installer, amount |-> amount, metadataHash |-> metadataHash]

ProofSubmittedEvent(proofContentHash, submittedAt) ==
  [name |-> "ProofSubmitted", proofContentHash |-> proofContentHash,
   submittedAt |-> submittedAt]

FundsReleasedEvent(recipient, amount, finalState) ==
  [name |-> "FundsReleased", recipient |-> recipient, amount |-> amount,
   finalState |-> finalState]

\* a call that reverts before any external call: nothing but its outcome
Revert(op, id, caller, err) ==
  /\ last' = Outcome(op, id, caller, err)
  /\ UNCHANGED <<bookings, balance, events, transfers, now, stack>>
  /\ UNCHANGED syncVars

\* --------------------------------------------------- chain event indexer
MaxBlock    == 3     \* blocks mined after the genesis block
BatchBlocks == 2     \* blocks fetched per getLogs call; 2000 in the route

BATCH == BatchBlocks

\* the booking rows of the indexer's database, by chainBookingId
DbIds == BookingIds

\* uint8(BookingState), as FundsReleased carries it
StateNum(s) ==
  CASE s = Funded -> 0 [] s = ProofSubmitted -> 1 [] s = Approved -> 2
    [] s = Rejected -> 3 [] s = Expired -> 4

\* a disputeDeadline column that was never written
NoDate == 0

\* no request is being served and none has been
Idle ==
  [pc |-> "idle", fromBlock |-> 0, toBlock |-> 0, start |-> 0,
   fundedLogs |-> <<>>, proofLogs |-> <<>>, releasedLogs |-> <<>>,
   synced |-> 0, response |-> "none"]

Init ==
  /\ bookings  = [id \in BookingIds |-> ZeroBooking]
  /\ balance   = 0
  /\ events    = [id \in BookingIds |-> <<>>]
  /\ transfers = [id \in BookingIds |-> <<>>]
  /\ now       = StartTime
  /\ stack     = <<>>
  /\ last      = NoCall
  /\ chainLogs  = <<>>
  /\ head       = 0
  /\ chainEvent = <<>>
  /\ dbStatus   = [id \in DbIds |-> "PENDING_PAYMENT"]
  /\ disputeDeadline = [id \in DbIds |-> NoDate]
  /\ run        = Idle

\* ----------------------------------------------------------------- actions
\* the clock of the model runs MaxWindows dispute windows (and MaxSec
\* seconds) past the time a booking funded at StartTime can wait for its
\* proof and its dispute; bookings are funded only while the clock can
\* still run that far past both of their deadlines
Elapsed  == now - StartTime
ClockEnd ==
  DEFAULT_PROOF_DEADLINE + DEFAULT_DISPUTE_WINDOW
    + MaxWindows * DEFAULT_DISPUTE_WINDOW + MaxSec
WithinHorizon ==
  Elapsed + DEFAULT_PROOF_DEADLINE + DEFAULT_DISPUTE_WINDOW
    + MaxWindows * DEFAULT_DISPUTE_WINDOW <= ClockEnd

\* mutant: the wallOwner argument is stored as the advertiser
fundBooking_PayerIsWallOwner(caller, id, wallOwner, installer, metadataHash, value) ==
  LET err == fundBookingErr(id, wallOwner, installer, value) IN
  IF err # "ok" THEN Revert("fundBooking", id, caller, err)
  ELSE
    /\ WithinHorizon
    /\ bookings' = [bookings EXCEPT ![id] =
         [advertiser |-> wallOwner, amount |-> uint96(value),
          wallOwner |-> wallOwner, fundedAt |-> now,
          proofDeadlineSec |-> DEFAULT_PROOF_DEADLINE,
          installer |-> installer, proofSubmittedAt |-> 0, state |-> Funded,
          disputeWindowSec |-> DEFAULT_DISPUTE_WINDOW,
          proofContentHash |-> 0, metadataHash |-> metadataHash]]
    /\ balance' = balance + value
    /\ events' = [events EXCEPT ![id] = Append(@,
         BookingFundedEvent(caller, wallOwner, installer, uint96(value),
                            metadataHash))]
    /\ last' = Outcome("fundBooking", id, caller, "ok")
    /\ UNCHANGED <<transfers, now, stack>>
    /\ UNCHANGED syncVars

\* mutant: wallOwner and installer are stored in each other's field
fundBooking_SwapsParties(caller, id, wallOwner, installer, metadataHash, value) ==
  LET err == fundBookingErr(id, wallOwner, installer, value) IN
  IF err # "ok" THEN Revert("fundBooking", id, caller, err)
  ELSE
    /\ WithinHorizon
    /\ bookings' = [bookings EXCEPT ![id] =
         [advertiser |-> caller, amount |-> uint96(value),
          wallOwner |-> installer, fundedAt |-> now,
          proofDeadlineSec |-> DEFAULT_PROOF_DEADLINE,
          installer |-> wallOwner, proofSubmittedAt |-> 0, state |-> Funded,
          disputeWindowSec |-> DEFAULT_DISPUTE_WINDOW,
          proofContentHash |-> 0, metadataHash |-> metadataHash]]
    /\ balance' = balance + value
    /\ events' = [events EXCEPT ![id] = Append(@,
         BookingFundedEvent(caller, wallOwner, installer, uint96(value),
                            metadataHash))]
    /\ last' = Outcome("fundBooking", id, caller, "ok")
    /\ UNCHANGED <<transfers, now, stack>>
    /\ UNCHANGED syncVars

fundBooking(caller, id, wallOwner, installer, metadataHash, value) ==
  LET err == fundBookingErr(id, wallOwner, installer, value) IN
  IF err # "ok" THEN Revert("fundBooking", id, caller, err)
  ELSE
    /\ WithinHorizon
    /\ bookings' = [bookings EXCEPT ![id] =
         [advertiser |-> caller, amount |-> uint96(value),
          wallOwner |-> wallOwner, fundedAt |-> now,
          proofDeadlineSec |-> DEFAULT_PROOF_DEADLINE,
          installer |-> installer, proofSubmittedAt |-> 0, state |-> Funded,
          disputeWindowSec |-> DEFAULT_DISPUTE_WINDOW,
          proofContentHash |-> 0, metadataHash |-> metadataHash]]
    /\ balance' = balance + value
    /\ events' = [events EXCEPT ![id] = Append(@,
         BookingFundedEvent(caller, wallOwner, installer, uint96(value),
                            metadataHash))]
    /\ last' = Outcome("fundBooking", id, caller, "ok")
    /\ UNCHANGED <<transfers, now, stack>>
    /\ UNCHANGED syncVars

\* mutant: submitProof emits nothing
submitProof_NoEvent(caller, id, proofContentHash) ==
  LET err == submitProofErr(id, caller) IN
  IF err # "ok" THEN Revert("submitProof", id, caller, err)
  ELSE
    /\ bookings' = [bookings EXCEPT ![id].proofContentHash = proofContentHash,
                                    ![id].proofSubmittedAt = now,
                                    ![id].state = ProofSubmitted]
    /\ last' = Outcome("submitProof", id, caller, "ok")
    /\ UNCHANGED <<balance, events, transfers, now, stack>>
    /\ UNCHANGED syncVars

submitProof(caller, id, proofContentHash) ==
  LET err == submitProofErr(id, caller) IN
  IF err # "ok" THEN Revert("submitProof", id, caller, err)
  ELSE
    /\ bookings' = [bookings EXCEPT ![id].proofContentHash = proofContentHash,
                                    ![id].proofSubmittedAt = now,
                                    ![id].state = ProofSubmitted]
    /\ events' = [events EXCEPT ![id] = Append(@,
         ProofSubmittedEvent(proofContentHash, now))]
    /\ last' = Outcome("submitProof", id, caller, "ok")
    /\ UNCHANGED <<balance, transfers, now, stack>>
    /\ UNCHANGED syncVars

\* the frame a suspended _release leaves on the stack: what to restore if
\* the recipient refuses, and the call to report when it returns
Frame(op, id, caller, recipient, amt) ==
  [op |-> op, id |-> id, caller |-> caller, recipient |-> recipient,
   amt |-> amt, saved |-> World]

\* mutant: b.amount is not zeroed
_release_KeepsAmount(op, caller, id, b, recipient, newState) ==
  LET amt == b.amount IN
  IF balance < amt THEN Revert(op, id, caller, "TransferFailed")
  ELSE
    /\ Depth < MaxDepth
    /\ bookings' = [bookings EXCEPT ![id] = [b EXCEPT !.state = newState]]
    /\ events' = [events EXCEPT ![id] = Append(@,
         FundsReleasedEvent(recipient, amt, newState))]
    /\ transfers' = [transfers EXCEPT ![id] = Append(@,
         [to |-> recipient, amount |-> amt])]
    /\ balance' = balance - amt
    /\ stack' = Append(stack, Frame(op, id, caller, recipient, amt))
    /\ last' = Outcome(op, id, caller, "pending")
    /\ UNCHANGED now
    /\ UNCHANGED syncVars

\* mutant: b.state is not written before the external call
_release_StateNotSet(op, caller, id, b, recipient, newState) ==
  LET amt == b.amount IN
  IF balance < amt THEN Revert(op, id, caller, "TransferFailed")
  ELSE
    /\ Depth < MaxDepth
    /\ bookings' = [bookings EXCEPT ![id] = [b EXCEPT !.amount = 0]]
    /\ events' = [events EXCEPT ![id] = Append(@,
         FundsReleasedEvent(recipient, amt, newState))]
    /\ transfers' = [transfers EXCEPT ![id] = Append(@,
         [to |-> recipient, amount |-> amt])]
    /\ balance' = balance - amt
    /\ stack' = Append(stack, Frame(op, id, caller, recipient, amt))
    /\ last' = Outcome(op, id, caller, "pending")
    /\ UNCHANGED now
    /\ UNCHANGED syncVars

\* _release up to and including the start of recipient.call{value: amt}:
\* b is the storage record as the calling handler has left it
\* mutant: the transfer sends address(this).balance
_release_PaysWholeBalance(op, caller, id, b, recipient, newState) ==
  LET amt == balance IN
  /\ Depth < MaxDepth
  /\ bookings' = [bookings EXCEPT ![id] =
                    [b EXCEPT !.amount = 0, !.state = newState]]
  /\ events' = [events EXCEPT ![id] = Append(@,
       FundsReleasedEvent(recipient, b.amount, newState))]
  /\ transfers' = [transfers EXCEPT ![id] = Append(@,
       [to |-> recipient, amount |-> amt])]
  /\ balance' = balance - amt
  /\ stack' = Append(stack, Frame(op, id, caller, recipient, amt))
  /\ last' = Outcome(op, id, caller, "pending")
  /\ UNCHANGED now
  /\ UNCHANGED syncVars

\* mutant: FundsReleased is emitted with b.amount read after it was zeroed
_release_EmitsZero(op, caller, id, b, recipient, newState) ==
  LET amt == b.amount IN
  IF balance < amt THEN Revert(op, id, caller, "TransferFailed")
  ELSE
    /\ Depth < MaxDepth
    /\ bookings' = [bookings EXCEPT ![id] =
                      [b EXCEPT !.amount = 0, !.state = newState]]
    /\ events' = [events EXCEPT ![id] = Append(@,
         FundsReleasedEvent(recipient, 0, newState))]
    /\ transfers' = [transfers EXCEPT ![id] = Append(@,
         [to |-> recipient, amount |-> amt])]
    /\ balance' = balance - amt
    /\ stack' = Append(stack, Frame(op, id, caller, recipient, amt))
    /\ last' = Outcome(op, id, caller, "pending")
    /\ UNCHANGED now
    /\ UNCHANGED syncVars

_release(op, caller, id, b, recipient, newState) ==
  LET amt == b.amount IN
  IF balance < amt THEN Revert(op, id, caller, "TransferFailed")
  ELSE
    /\ Depth < MaxDepth
    /\ bookings' = [bookings EXCEPT ![id] =
                      [b EXCEPT !.amount = 0, !.state = newState]]
    /\ events' = [events EXCEPT ![id] = Append(@,
         FundsReleasedEvent(recipient, amt, newState))]
    /\ transfers' = [transfers EXCEPT ![id] = Append(@,
         [to |-> recipient, amount |-> amt])]
    /\ balance' = balance - amt
    /\ stack' = Append(stack, Frame(op, id, caller, recipient, amt))
    /\ last' = Outcome(op, id, caller, "pending")
    /\ UNCHANGED now
    /\ UNCHANGED syncVars

approveProof(caller, id) ==
  LET err == approveProofErr(id, caller) IN
  IF err # "ok" THEN Revert("approveProof", id, caller, err)
  ELSE _release("approveProof", caller, id, bookings[id],
                bookings[id].wallOwner, Approved)

\* mutant: the refund is sent to b.wallOwner
rejectProof_PaysWallOwner(caller, id, rejectionReasonHash) ==
  LET err == rejectProofErr(id, caller) IN
  IF err # "ok" THEN Revert("rejectProof", id, caller, err)
  ELSE _release("rejectProof", caller, id,
                [bookings[id] EXCEPT !.proofContentHash = rejectionReasonHash],
                bookings[id].wallOwner, Rejected)

\* mutant: the reason hash is written over the metadata hash
rejectProof_OverwritesMetadata(caller, id, rejectionReasonHash) ==
  LET err == rejectProofErr(id, caller) IN
  IF err # "ok" THEN Revert("rejectProof", id, caller, err)
  ELSE _release("rejectProof", caller, id,
                [bookings[id] EXCEPT !.metadataHash = rejectionReasonHash],
                bookings[id].advertiser, Rejected)

\* mutant: the reason hash is not stored
rejectProof_KeepsProofHash(caller, id, rejectionReasonHash) ==
  LET err == rejectProofErr(id, caller) IN
  IF err # "ok" THEN Revert("rejectProof", id, caller, err)
  ELSE _release("rejectProof", caller, id, bookings[id],
                bookings[id].advertiser, Rejected)

rejectProof(caller, id, rejectionReasonHash) ==
  LET err == rejectProofErr(id, caller) IN
  IF err # "ok" THEN Revert("rejectProof", id, caller, err)
  ELSE _release("rejectProof", caller, id,
                [bookings[id] EXCEPT !.proofContentHash = rejectionReasonHash],
                bookings[id].advertiser, Rejected)

\* mutant: the claim is paid to msg.sender
claimAfterTimeout_PaysCaller(caller, id) ==
  LET err == claimAfterTimeoutErr(id, caller) IN
  IF err # "ok" THEN Revert("claimAfterTimeout", id, caller, err)
  ELSE _release("claimAfterTimeout", caller, id, bookings[id], caller, Approved)

claimAfterTimeout(caller, id) ==
  LET err == claimAfterTimeoutErr(id, caller) IN
  IF err # "ok" THEN Revert("claimAfterTimeout", id, caller, err)
  ELSE _release("claimAfterTimeout", caller, id, bookings[id],
                bookings[id].wallOwner, Approved)

reclaimExpiredBooking(caller, id) ==
  LET err == reclaimExpiredBookingErr(id, caller) IN
  IF err # "ok" THEN Revert("reclaimExpiredBooking", id, caller, err)
  ELSE _release("reclaimExpiredBooking", caller, id, bookings[id],
                bookings[id].advertiser, Expired)

Top == stack[Len(stack)]
Pop == SubSeq(stack, 1, Len(stack) - 1)

\* recipient.call returned true: _release and its handler return
TransferAccepted ==
  /\ stack # <<>>
  /\ stack' = Pop
  /\ last' = [Outcome(Top.op, Top.id, Top.caller, "ok") EXCEPT !.depth = Depth - 1]
  /\ UNCHANGED <<bookings, balance, events, transfers, now>>
  /\ UNCHANGED syncVars

\* mutant: the revert puts the storage back but not the value sent
TransferRefused_KeepsDebit ==
  /\ stack # <<>>
  /\ stack' = Pop
  /\ bookings'  = Top.saved.bookings
  /\ events'    = Top.saved.events
  /\ transfers' = Top.saved.transfers
  /\ last' = [Outcome(Top.op, Top.id, Top.caller, "TransferFailed")
                EXCEPT !.depth = Depth - 1]
  /\ UNCHANGED <<balance, now>>
  /\ UNCHANGED syncVars

\* mutant: the failed transfer is reported but the writes of the call stay
TransferRefused_KeepsStorage ==
  /\ stack # <<>>
  /\ stack' = Pop
  /\ balance' = Top.saved.balance
  /\ last' = [Outcome(Top.op, Top.id, Top.caller, "TransferFailed")
                EXCEPT !.depth = Depth - 1]
  /\ UNCHANGED <<bookings, events, transfers, now>>
  /\ UNCHANGED syncVars

\* recipient.call returned false: revert TransferFailed() undoes the frame
\* mutant: the storage writes are undone but the value stays with the recipient
TransferRefused_KeepsTransfer ==
  /\ stack # <<>>
  /\ stack' = Pop
  /\ bookings'  = Top.saved.bookings
  /\ events'    = Top.saved.events
  /\ last' = [Outcome(Top.op, Top.id, Top.caller, "TransferFailed")
                EXCEPT !.depth = Depth - 1]
  /\ UNCHANGED <<balance, transfers, now>>
  /\ UNCHANGED syncVars

TransferRefused ==
  /\ stack # <<>>
  /\ stack' = Pop
  /\ bookings'  = Top.saved.bookings
  /\ balance'   = Top.saved.balance
  /\ events'    = Top.saved.events
  /\ transfers' = Top.saved.transfers
  /\ last' = [Outcome(Top.op, Top.id, Top.caller, "TransferFailed")
                EXCEPT !.depth = Depth - 1]
  /\ UNCHANGED now
  /\ UNCHANGED syncVars

\* a later block: block.timestamp advances by d, between transactions only;
\* steps shorter than a dispute window are the seconds of the model's clock
Tick(d) ==
  /\ stack = <<>>
  /\ d > 0
  /\ Elapsed + d <= ClockEnd
  /\ d < DEFAULT_DISPUTE_WINDOW => (Elapsed % DEFAULT_DISPUTE_WINDOW) + d <= MaxSec
  /\ now' = now + d
  /\ last' = NoCall
  /\ UNCHANGED <<bookings, balance, events, transfers, stack>>
  /\ UNCHANGED syncVars

\* the (advertiser, wallOwner, installer) triples funding calls are made with:
\* three distinct parties, parties sharing an address, and null arguments
Parties ==
  {<<1, 2, 3>>, <<1, 2, 2>>, <<2, 2, 3>>, <<1, NullAddress, 3>>, <<1, 2, NullAddress>>}

\* keccak256(canonicalBookingJSON): a value no proof or reason hash takes
MetadataHashes == {HashB}

\* every call and step the environment can make, over the given booking ids,
\* funding parties, proof and reason hashes, and clock steps
Calls(ids, parties, hashes, steps) ==
  \/ \E p \in parties, id \in ids, m \in MetadataHashes, v \in Values :
       fundBooking(p[1], id, p[2], p[3], m, v)
  \/ \E c \in Addresses, id \in ids, h \in hashes : submitProof(c, id, h)
  \/ \E c \in Addresses, id \in ids : approveProof(c, id)
  \/ \E c \in Addresses, id \in ids, h \in hashes : rejectProof(c, id, h)
  \/ \E c \in Addresses, id \in ids : claimAfterTimeout(c, id)
  \/ \E c \in Addresses, id \in ids : reclaimExpiredBooking(c, id)
  \/ TransferAccepted
  \/ TransferRefused
  \/ \E d \in steps : Tick(d)

\* one booking, every kind of party and caller, seconds and windows
Next == Calls({1}, Parties, Hashes, {1, DEFAULT_DISPUTE_WINDOW})

Spec == Init /\ [][Next]_vars

\* several bookings side by side: three distinct parties, one hash value,
\* the clock stepping just past a proof deadline at a time
NextMulti == Calls(BookingIds, {<<1, 2, 3>>}, {HashA}, {DEFAULT_PROOF_DEADLINE + 1})

SpecMulti == Init /\ [][NextMulti]_vars

\* ================================================================= claims
TerminalOps ==
  {"approveProof", "rejectProof", "claimAfterTimeout", "reclaimExpiredBooking"}

\* the call `last` describes got past its guards (it is suspended in its
\* transfer, or has returned from it)
Passed == last.err \in {"ok", "pending", "TransferFailed"}

\* the call `last` describes reverted in its guards
Failed == last.op # "none" /\ ~Passed

EventsNamed(id, name) == SelectSeq(events[id], LAMBDA e : e.name = name)
Released(id) == Len(EventsNamed(id, "FundsReleased"))
Created(id)  == bookings[id].advertiser # NullAddress

RECURSIVE SumOver(_, _)
SumOver(S, f) ==
  IF S = {} THEN 0
  ELSE LET x == CHOOSE y \in S : TRUE IN f[x] + SumOver(S \ {x}, f)

RECURSIVE SeqSum(_)
SeqSum(q) == IF q = <<>> THEN 0 ELSE Head(q).amount + SeqSum(Tail(q))

FundedOf(id)   == SeqSum(EventsNamed(id, "BookingFunded"))
ReleasedOf(id) == SeqSum(transfers[id])
TotalHeld      == SumOver(BookingIds, [id \in BookingIds |-> bookings[id].amount])
TotalFunded    == SumOver(BookingIds, [id \in BookingIds |-> FundedOf(id)])
TotalReleased  == SumOver(BookingIds, [id \in BookingIds |-> ReleasedOf(id)])

\* C1 (P1, exclusivity): for every id at most one of approveProof,
\* rejectProof, claimAfterTimeout and reclaimExpiredBooking ever succeeds
\* (one release is on record per id, never two), and every such call made
\* once a release is on record fails with InvalidState, whoever makes it.
C1_Exclusive ==
  \A id \in BookingIds :
    /\ Released(id) <= 1
    /\ Len(transfers[id]) <= 1
    /\ Released(id) = 1 =>
         /\ \A c \in Addresses :
              /\ approveProofErr(id, c) = "InvalidState"
              /\ rejectProofErr(id, c) = "InvalidState"
              /\ claimAfterTimeoutErr(id, c) = "InvalidState"
              /\ reclaimExpiredBookingErr(id, c) = "InvalidState"
         /\ (last.id = id /\ last.op \in TerminalOps /\ Failed)
              => last.err = "InvalidState"

C1_Witness ==
  /\ Depth = 0
  /\ Released(1) = 1
  /\ last.id = 1 /\ last.op = "rejectProof" /\ last.err = "InvalidState"
  /\ last.caller = bookings[1].advertiser

\* C2 (P2, conservation): in every state the value the ledger holds equals
\* the sum of the stored amounts of all bookings, and that sum equals the
\* total funded minus the total released.
C2_Conservation ==
  /\ balance = TotalHeld
  /\ TotalHeld = TotalFunded - TotalReleased

\* Scenario E with two bookings: one settled, the other still funded with a
\* different amount
C2_Witness ==
  /\ Depth = 0
  /\ bookings[1].state = Approved
  /\ bookings[2].state = Funded
  /\ FundedOf(1) # FundedOf(2)
  /\ balance = bookings[2].amount
  /\ balance > 0

\* C3: a booking that reached a terminal state has exactly one outbound
\* transfer on record, of the full amount funded, sent to wallOwner when the
\* state is Approved and to advertiser when it is Rejected or Expired; a
\* booking that has not reached a terminal state has none.
C3_OneTransfer ==
  \A id \in BookingIds :
    IF bookings[id].state \in TerminalStates
    THEN /\ Len(transfers[id]) = 1
         /\ transfers[id][1].amount = FundedOf(id)
         /\ transfers[id][1].amount > 0
         /\ transfers[id][1].to =
              IF bookings[id].state = Approved THEN bookings[id].wallOwner
              ELSE bookings[id].advertiser
    ELSE transfers[id] = <<>>

C3_Witness ==
  /\ Depth = 0
  /\ bookings[1].state = Rejected
  /\ last.op = "rejectProof" /\ last.err = "ok"
  /\ bookings[1].wallOwner # bookings[1].advertiser
  /\ transfers[1] = << [to |-> bookings[1].advertiser, amount |-> MAX_UINT96] >>

\* C4 (release discipline): while the transfer of a release is in flight the
\* booking's amount is already 0 and its state already terminal, every
\* mutating call on that id by any caller fails, no call made on that id
\* from inside the transfer has got past its guards, and the id has one
\* transfer on record.
C4_Reentrancy ==
  \A k \in 1..Len(stack) :
    LET id == stack[k].id IN
    /\ bookings[id].amount = 0
    /\ bookings[id].state \in TerminalStates
    /\ Len(transfers[id]) = 1
    /\ \A c \in Addresses :
         /\ \A w \in Addresses, i \in Addresses, v \in Values :
              fundBookingErr(id, w, i, v) # "ok"
         /\ submitProofErr(id, c) # "ok"
         /\ approveProofErr(id, c) # "ok"
         /\ rejectProofErr(id, c) # "ok"
         /\ claimAfterTimeoutErr(id, c) # "ok"
         /\ reclaimExpiredBookingErr(id, c) # "ok"
    /\ (last.id = id /\ last.depth >= k) => Failed

\* the recipient called back into approveProof from inside the transfer
C4_Witness ==
  /\ Depth = 1
  /\ last.depth = 1
  /\ last.id = stack[1].id
  /\ last.caller = stack[1].recipient
  /\ last.op = "approveProof"
  /\ last.err = "InvalidState"

\* C5: for every created booking, amount is nonzero exactly when the state
\* is Funded or ProofSubmitted and zero exactly when it is Approved,
\* Rejected or Expired.
C5_AmountIffLive ==
  \A id \in BookingIds :
    Created(id) =>
      /\ bookings[id].amount # 0 <=> bookings[id].state \in {Funded, ProofSubmitted}
      /\ bookings[id].amount = 0 <=> bookings[id].state \in TerminalStates

C5_Witness ==
  /\ Created(1)
  /\ bookings[1].state = Expired
  /\ bookings[1].amount = 0
  /\ last.op = "reclaimExpiredBooking" /\ last.err = "ok"

\* the transition graph of BookingState
Edges ==
  {<<Funded, ProofSubmitted>>, <<ProofSubmitted, Approved>>,
   <<ProofSubmitted, Rejected>>, <<Funded, Expired>>}

\* the step is the revert of a call whose transfer was refused: it puts back
\* what that call wrote, it is not a call of its own
Undo == Depth' < Depth /\ last'.err = "TransferFailed"

\* C6: in every step that is not the undoing of a failed call, the state of
\* a booking stays or moves along Funded -> ProofSubmitted, ProofSubmitted ->
\* Approved, ProofSubmitted -> Rejected or Funded -> Expired, and a booking
\* whose state is Approved, Rejected or Expired keeps every field.
C6_Forward ==
  [][ ~Undo =>
        \A id \in BookingIds :
          /\ bookings'[id].state # bookings[id].state
               => <<bookings[id].state, bookings'[id].state>> \in Edges
          /\ bookings[id].state \in TerminalStates
               => bookings'[id] = bookings[id] ]_vars

\* the installer tried to submit again on a settled booking, within the
\* proof deadline
C6_Witness ==
  /\ Depth = 0
  /\ bookings[1].state = Approved
  /\ last.id = 1 /\ last.op = "submitProof" /\ last.err = "InvalidState"
  /\ last.caller = bookings[1].installer
  /\ now <= bookings[1].fundedAt + bookings[1].proofDeadlineSec

\* C7 (authorization safety): a submitProof that passed its guards was
\* called by the installer; an approveProof, rejectProof or
\* reclaimExpiredBooking that passed its guards was called by the
\* advertiser; a call that took a booking to Approved while the dispute
\* window was still open, or to Rejected or Expired at any time, was called
\* by the advertiser.
C7_Authorized ==
  (last.op # "none" /\ Passed) =>
    LET b == bookings[last.id] IN
    /\ last.op = "submitProof" => last.caller = b.installer
    /\ last.op \in {"approveProof", "rejectProof", "reclaimExpiredBooking"}
         => last.caller = b.advertiser
    /\ (/\ last.op \in TerminalOps
        /\ b.state = Approved
        /\ now <= b.proofSubmittedAt + b.disputeWindowSec)
         => last.caller = b.advertiser
    /\ (last.op \in TerminalOps /\ b.state \in {Rejected, Expired})
         => last.caller = b.advertiser

\* the advertiser, who is not the wallOwner, approved inside the window
C7_Witness ==
  /\ Depth = 0
  /\ last.op = "approveProof" /\ last.err = "ok"
  /\ bookings[last.id].state = Approved
  /\ bookings[last.id].wallOwner # bookings[last.id].advertiser
  /\ now <= bookings[last.id].proofSubmittedAt + bookings[last.id].disputeWindowSec

\* C8 as stated (P3 in every state): on a created booking, submitProof by a
\* caller other than the installer fails with Unauthorized, and
\* approveProof, rejectProof and reclaimExpiredBooking by a caller other
\* than the advertiser fail with Unauthorized, whatever the booking's state.
C8_UnauthorizedInEveryState ==
  (last.op # "none" /\ Created(last.id)) =>
    LET b == bookings[last.id] IN
    /\ (last.op = "submitProof" /\ last.caller # b.installer)
         => last.err = "Unauthorized"
    /\ (/\ last.op \in {"approveProof", "rejectProof", "reclaimExpiredBooking"}
        /\ last.caller # b.advertiser)
         => last.err = "Unauthorized"

\* C8 (amended): on a created booking, submitProof by a caller other than
\* the installer and approveProof, rejectProof and reclaimExpiredBooking by
\* a caller other than the advertiser always fail: with Unauthorized when
\* the booking is in the state the operation requires (Funded for
\* submitProof and reclaimExpiredBooking, ProofSubmitted for approveProof
\* and rejectProof), and with InvalidState in every other state.
C8_UnauthorizedInRequiredState ==
  (last.op # "none" /\ Created(last.id)) =>
    LET b == bookings[last.id]
        required == IF last.op \in {"submitProof", "reclaimExpiredBooking"}
                    THEN Funded ELSE ProofSubmitted
        expected == IF b.state = required THEN "Unauthorized" ELSE "InvalidState"
    IN
    /\ (last.op = "submitProof" /\ last.caller # b.installer)
         => last.err = expected
    /\ (/\ last.op \in {"approveProof", "rejectProof", "reclaimExpiredBooking"}
        /\ last.caller # b.advertiser)
         => last.err = expected

\* a caller who is not the advertiser tried to reject a settled booking
C8_Witness ==
  /\ last.op = "rejectProof"
  /\ Created(last.id)
  /\ last.caller # bookings[last.id].advertiser
  /\ bookings[last.id].state = Approved
  /\ last.err = "InvalidState"

\* the guards of the operation `op`
OpErr(op, id, caller) ==
  CASE op = "submitProof"           -> submitProofErr(id, caller)
    [] op = "approveProof"          -> approveProofErr(id, caller)
    [] op = "rejectProof"           -> rejectProofErr(id, caller)
    [] op = "claimAfterTimeout"     -> claimAfterTimeoutErr(id, caller)
    [] op = "reclaimExpiredBooking" -> reclaimExpiredBookingErr(id, caller)

\* C9 (atomicity on transfer failure): right after a terminal call failed
\* with TransferFailed the booking is in the state the call requires, holds
\* the full funded amount, has the proof hash the installer submitted (0 if
\* none was), the ledger holds the value, no release or transfer is on
\* record, the event log of the id holds only its funding and proof events,
\* and the same call by the same caller passes its guards again.
C9_TransferFailedAtomic ==
  last.err = "TransferFailed" =>
    LET id == last.id
        b  == bookings[id]
        submitted == EventsNamed(id, "ProofSubmitted")
    IN
    /\ last.op \in TerminalOps
    /\ b.state = (IF last.op = "reclaimExpiredBooking" THEN Funded ELSE ProofSubmitted)
    /\ b.amount > 0
    /\ b.amount = FundedOf(id)
    /\ balance = TotalHeld
    /\ IF b.state = ProofSubmitted
       THEN /\ Len(events[id]) = 2
            /\ Len(submitted) = 1
            /\ b.proofContentHash = submitted[1].proofContentHash
            /\ b.proofSubmittedAt = submitted[1].submittedAt
       ELSE /\ Len(events[id]) = 1
            /\ b.proofContentHash = 0
    /\ Released(id) = 0
    /\ transfers[id] = <<>>
    /\ OpErr(last.op, id, last.caller) = "ok"

\* the advertiser refused the refund of rejectProof
C9_Witness ==
  /\ Depth = 0
  /\ last.op = "rejectProof" /\ last.err = "TransferFailed"
  /\ bookings[last.id].state = ProofSubmitted
  /\ bookings[last.id].proofContentHash = HashA
  /\ balance = MAX_UINT96

\* the escape calls, made by someone who may make them, and their transfers
\* accepted by the recipient
EscapeCalled ==
  \E id \in BookingIds :
    \/ /\ reclaimExpiredBookingErr(id, bookings[id].advertiser) = "ok"
       /\ reclaimExpiredBooking(bookings[id].advertiser, id)
    \/ \E c \in Addresses :
         /\ claimAfterTimeoutErr(id, c) = "ok"
         /\ claimAfterTimeout(c, id)

EscapeAccepted ==
  /\ stack # <<>>
  /\ Top.op \in {"reclaimExpiredBooking", "claimAfterTimeout"}
  /\ TransferAccepted

\* one booking under the hypotheses of the timeout guarantees: time advances, the
\* escape calls are eventually made when they are possible, and their
\* recipient eventually accepts the transfer
NextFair == Calls({1}, {<<1, 2, 3>>}, {HashA}, {1, DEFAULT_DISPUTE_WINDOW})

FairSpec ==
  /\ Init /\ [][NextFair]_vars
  /\ SF_vars(\E d \in {1, DEFAULT_DISPUTE_WINDOW} : Tick(d))
  /\ SF_vars(EscapeCalled)
  /\ SF_vars(EscapeAccepted)

Settled(id) == Depth = 0 /\ bookings[id].state \in TerminalStates

\* past its proof deadline a Funded booking can be reclaimed by its
\* advertiser, and past its dispute window a ProofSubmitted booking can be
\* claimed by every caller
EscapesOpen ==
  \A id \in BookingIds :
    Created(id) =>
      /\ (/\ bookings[id].state = Funded
          /\ now > bookings[id].fundedAt + bookings[id].proofDeadlineSec)
           => reclaimExpiredBookingErr(id, bookings[id].advertiser) = "ok"
      /\ (/\ bookings[id].state = ProofSubmitted
          /\ now > bookings[id].proofSubmittedAt + bookings[id].disputeWindowSec)
           => \A c \in Addresses : claimAfterTimeoutErr(id, c) = "ok"

SameWorld ==
  /\ bookings' = bookings
  /\ balance' = balance
  /\ events' = events
  /\ transfers' = transfers

\* C11 as stated (P5 for every value): a fundBooking on an id that is in use
\* fails with AlreadyExists, for every caller, every value and every address
\* argument and in every state of the existing booking, and changes nothing.
C11_AlreadyExistsForEveryValue ==
  /\ [](\A id \in BookingIds : Created(id) =>
          \A w \in Addresses, i \in Addresses, v \in Values :
            fundBookingErr(id, w, i, v) = "AlreadyExists")
  /\ [][ (last'.op = "fundBooking" /\ Created(last'.id))
          => (last'.err = "AlreadyExists" /\ SameWorld) ]_vars

\* C11 (amended): a fundBooking on an id that is in use always fails, for
\* every caller and every address argument and in every state of the
\* existing booking: with ZeroValue when the value sent is 0 and with
\* AlreadyExists for every other value; the existing booking, the value held
\* and the logs are left unchanged.
C11_AlreadyExistsUnlessZero ==
  /\ [](\A id \in BookingIds : Created(id) =>
          \A w \in Addresses \cup {NullAddress},
             i \in Addresses \cup {NullAddress}, v \in Values :
            fundBookingErr(id, w, i, v) =
              (IF v = 0 THEN "ZeroValue" ELSE "AlreadyExists"))
  /\ [][ (last'.op = "fundBooking" /\ Created(last'.id))
          => (last'.err \in {"ZeroValue", "AlreadyExists"} /\ SameWorld) ]_vars

\* a second funding of a booking that has meanwhile expired
C11_Witness ==
  /\ Depth = 0
  /\ last.op = "fundBooking" /\ last.err = "AlreadyExists"
  /\ bookings[last.id].state = Expired
  /\ Len(EventsNamed(last.id, "BookingFunded")) = 1

\* C12 (P4, proof deadline boundary): for a Funded booking submitProof by
\* the installer passes at every time now <= fundedAt + proofDeadlineSec,
\* the boundary included, and fails with ProofDeadlineMissed at every time
\* now >= fundedAt + proofDeadlineSec + 1; a submitProof that succeeded was
\* made no later than the boundary and one that failed with
\* ProofDeadlineMissed was made after it.
C12_ProofDeadlineBoundary ==
  /\ \A id \in BookingIds :
       (Created(id) /\ bookings[id].state = Funded) =>
         LET b == bookings[id] IN
         /\ now <= b.fundedAt + b.proofDeadlineSec
              => submitProofErr(id, b.installer) = "ok"
         /\ now >= b.fundedAt + b.proofDeadlineSec + 1
              => submitProofErr(id, b.installer) = "ProofDeadlineMissed"
  /\ (last.op = "submitProof" /\ last.err = "ok") =>
       LET b == bookings[last.id] IN
       /\ b.state = ProofSubmitted
       /\ b.proofSubmittedAt = now
       /\ last.caller = b.installer
       /\ now <= b.fundedAt + b.proofDeadlineSec
  /\ (last.op = "submitProof" /\ last.err = "ProofDeadlineMissed") =>
       LET b == bookings[last.id] IN
       /\ b.state = Funded
       /\ last.caller = b.installer
       /\ now >= b.fundedAt + b.proofDeadlineSec + 1
  /\ (/\ last.op = "submitProof"
      /\ Created(last.id)
      /\ bookings[last.id].state = Funded
      /\ last.caller = bookings[last.id].installer)
       => last.err = "ProofDeadlineMissed"

\* the installer submitted in the last second of the deadline
C12_Witness ==
  /\ last.op = "submitProof" /\ last.err = "ok"
  /\ bookings[last.id].state = ProofSubmitted
  /\ now = bookings[last.id].fundedAt + bookings[last.id].proofDeadlineSec
  /\ now = StartTime + 14 * DAY

\* the last second of the dispute window of a booking
WindowEnd(id) == bookings[id].proofSubmittedAt + bookings[id].disputeWindowSec

\* C13 (dispute window partition): for a ProofSubmitted booking, at every
\* time rejectProof by the advertiser passes its guards iff now <=
\* proofSubmittedAt + disputeWindowSec and fails with DisputeWindowClosed
\* otherwise, claimAfterTimeout passes its guards iff now > proofSubmittedAt
\* + disputeWindowSec and fails with DisputeWindowOpen otherwise, so exactly
\* one of the two is enabled; a rejectProof that got past its guards was
\* made inside the window and a claimAfterTimeout that did, after it.
C13_WindowPartition ==
  /\ \A id \in BookingIds :
       (Created(id) /\ bookings[id].state = ProofSubmitted) =>
         LET reject == rejectProofErr(id, bookings[id].advertiser) IN
         /\ reject = (IF now <= WindowEnd(id) THEN "ok" ELSE "DisputeWindowClosed")
         /\ \A c \in Addresses :
              LET claim == claimAfterTimeoutErr(id, c) IN
              /\ claim = (IF now > WindowEnd(id) THEN "ok" ELSE "DisputeWindowOpen")
              /\ (reject = "ok") # (claim = "ok")
  /\ (last.op = "rejectProof" /\ Passed) => now <= WindowEnd(last.id)
  /\ (last.op = "claimAfterTimeout" /\ Passed) => now > WindowEnd(last.id)
  /\ last.err = "DisputeWindowClosed" =>
       /\ last.op = "rejectProof"
       /\ bookings[last.id].state = ProofSubmitted
       /\ last.caller = bookings[last.id].advertiser
       /\ now > WindowEnd(last.id)
  /\ last.err = "DisputeWindowOpen" =>
       /\ last.op = "claimAfterTimeout"
       /\ bookings[last.id].state = ProofSubmitted
       /\ now <= WindowEnd(last.id)

\* Scenario F at the boundary: a claim in the last second of the window
C13_Witness ==
  /\ last.op = "claimAfterTimeout" /\ last.err = "DisputeWindowOpen"
  /\ bookings[last.id].state = ProofSubmitted
  /\ now = WindowEnd(last.id)
  /\ rejectProofErr(last.id, bookings[last.id].advertiser) = "ok"

\* the last second in which proof can be submitted for a booking
DeadlineEnd(id) == bookings[id].fundedAt + bookings[id].proofDeadlineSec

\* C14 (proof deadline partition): for a Funded booking,
\* reclaimExpiredBooking by the advertiser passes its guards iff now >
\* fundedAt + proofDeadlineSec and fails with ProofDeadlineNotReached
\* otherwise, so at every time exactly one of the installer's submitProof
\* and the advertiser's reclaimExpiredBooking is enabled; a booking for
\* which proof was submitted is never Expired and no caller's
\* reclaimExpiredBooking passes on it.
C14_DeadlinePartition ==
  /\ \A id \in BookingIds :
       Created(id) =>
         LET b == bookings[id]
             reclaim == reclaimExpiredBookingErr(id, b.advertiser)
             submit  == submitProofErr(id, b.installer)
         IN
         /\ b.state = Funded =>
              /\ reclaim = (IF now > DeadlineEnd(id) THEN "ok"
                            ELSE "ProofDeadlineNotReached")
              /\ (reclaim = "ok") # (submit = "ok")
         /\ b.state = Expired =>
              /\ b.proofSubmittedAt = 0
              /\ EventsNamed(id, "ProofSubmitted") = <<>>
         /\ EventsNamed(id, "ProofSubmitted") # <<>> =>
              /\ b.state \in {ProofSubmitted, Approved, Rejected}
              /\ b.proofSubmittedAt <= DeadlineEnd(id)
              /\ \A c \in Addresses :
                   reclaimExpiredBookingErr(id, c) = "InvalidState"
  /\ (last.op = "reclaimExpiredBooking" /\ Passed) => now > DeadlineEnd(last.id)
  /\ last.err = "ProofDeadlineNotReached" =>
       /\ last.op = "reclaimExpiredBooking"
       /\ bookings[last.id].state = Funded
       /\ last.caller = bookings[last.id].advertiser
       /\ now <= DeadlineEnd(last.id)

\* the advertiser tried to reclaim in the last second of the proof deadline
C14_Witness ==
  /\ last.op = "reclaimExpiredBooking" /\ last.err = "ProofDeadlineNotReached"
  /\ bookings[last.id].state = Funded
  /\ now = DeadlineEnd(last.id)
  /\ submitProofErr(last.id, bookings[last.id].installer) = "ok"

\* C15 (P3, claimAfterTimeout is open to all): for a ProofSubmitted booking
\* at a time now > proofSubmittedAt + disputeWindowSec, claimAfterTimeout
\* passes its guards for every caller and the only way it can still fail is
\* the recipient refusing the transfer; a claimAfterTimeout that got past
\* its guards has set the state Approved and the amount 0 and has sent the
\* full funded amount to the wallOwner, whoever the caller is.
C15_AnyoneClaims ==
  /\ \A id \in BookingIds :
       (Created(id) /\ bookings[id].state = ProofSubmitted /\ now > WindowEnd(id))
         => \A c \in Addresses : claimAfterTimeoutErr(id, c) = "ok"
  /\ (/\ last.op = "claimAfterTimeout"
      /\ bookings[last.id].state = ProofSubmitted
      /\ now > WindowEnd(last.id))
       => last.err = "TransferFailed"
  /\ (last.op = "claimAfterTimeout" /\ last.err \in {"pending", "ok"}) =>
       LET b == bookings[last.id] IN
       /\ now > WindowEnd(last.id)
       /\ b.state = Approved
       /\ b.amount = 0
       /\ transfers[last.id] =
            << [to |-> b.wallOwner, amount |-> FundedOf(last.id)] >>
       /\ last.caller # b.wallOwner => transfers[last.id][1].to # last.caller

\* the advertiser made the claim, and the wallOwner was paid
C15_Witness ==
  /\ Depth = 0
  /\ last.op = "claimAfterTimeout" /\ last.err = "ok"
  /\ last.caller = bookings[last.id].advertiser
  /\ last.caller # bookings[last.id].wallOwner
  /\ bookings[last.id].state = Approved
  /\ transfers[last.id][1].to = bookings[last.id].wallOwner

\* the fields of a booking that fundBooking alone writes
FundingFields(b) ==
  <<b.advertiser, b.wallOwner, b.installer, b.fundedAt, b.proofDeadlineSec,
    b.disputeWindowSec, b.metadataHash>>

\* C16: the advertiser, wallOwner, installer and metadataHash of a created
\* booking are those of its funding call as logged in BookingFunded, and no
\* later step, of a call that succeeds or one that fails, changes them or
\* its fundedAt, proofDeadlineSec or disputeWindowSec; the one way they go
\* is with the booking itself, when the call that created it was made from
\* inside a transfer whose transaction is then reverted.
C16_FundingFieldsFixed ==
  /\ [](\A id \in BookingIds :
          Created(id) =>
            LET b == bookings[id]
                e == events[id][1]
            IN
            /\ e.name = "BookingFunded"
            /\ <<e.advertiser, e.wallOwner, e.installer, e.metadataHash>>
                 = <<b.advertiser, b.wallOwner, b.installer, b.metadataHash>>
            /\ b.fundedAt <= now
            /\ b.proofDeadlineSec = 14 * DAY
            /\ b.disputeWindowSec = 7 * DAY)
  /\ [][ \A id \in BookingIds :
           Created(id) =>
             \/ FundingFields(bookings'[id]) = FundingFields(bookings[id])
             \/ /\ Undo
                /\ bookings'[id] = ZeroBooking
                /\ events'[id] = <<>> ]_vars

\* two bookings after a rejection and, a proof deadline later, a reclaim:
\* each still has the parties, times and metadata hash it was funded with
C16_Witness ==
  /\ Depth = 0
  /\ last.op = "reclaimExpiredBooking" /\ last.err = "ok"
  /\ bookings[1].state = Rejected
  /\ bookings[1].proofContentHash = HashA
  /\ bookings[2].state = Expired
  /\ \A id \in BookingIds :
       /\ bookings[id].metadataHash = HashB
       /\ bookings[id].fundedAt < now

\* C17 (races on one id): in every order and at every assignment of
\* timestamps, of the calls made for an id at most one fundBooking, at most
\* one submitProof and at most one of approveProof, rejectProof,
\* claimAfterTimeout and reclaimExpiredBooking has succeeded, and never both
\* a submitProof and a reclaimExpiredBooking; once one of them has, every
\* call it raced with fails for every caller: fundBooking once the id is
\* created, submitProof and reclaimExpiredBooking once proof is on record,
\* and every operation once a release is; while proof is on record and no
\* release is, the first approveProof by the advertiser passes its guards,
\* and so does the first rejectProof or the first claimAfterTimeout.
C17_OneWinner ==
  \A id \in BookingIds :
    LET funded    == EventsNamed(id, "BookingFunded")
        submitted == EventsNamed(id, "ProofSubmitted")
        released  == EventsNamed(id, "FundsReleased")
    IN
    /\ Len(funded) <= 1
    /\ Len(submitted) <= 1
    /\ Len(released) <= 1
    /\ (submitted # <<>> /\ released # <<>>) => released[1].finalState # Expired
    /\ funded # <<>> =>
         \A w \in Addresses, i \in Addresses, v \in Values :
           fundBookingErr(id, w, i, v) # "ok"
    /\ submitted # <<>> =>
         \A c \in Addresses :
           /\ submitProofErr(id, c) = "InvalidState"
           /\ reclaimExpiredBookingErr(id, c) = "InvalidState"
    /\ released # <<>> =>
         \A c \in Addresses :
           /\ submitProofErr(id, c) = "InvalidState"
           /\ approveProofErr(id, c) = "InvalidState"
           /\ rejectProofErr(id, c) = "InvalidState"
           /\ claimAfterTimeoutErr(id, c) = "InvalidState"
           /\ reclaimExpiredBookingErr(id, c) = "InvalidState"
    /\ (last.id = id /\ last.op \in TerminalOps /\ last.err \in {"pending", "ok"})
         => Len(released) = 1
    /\ (submitted # <<>> /\ released = <<>>) =>
         /\ approveProofErr(id, bookings[id].advertiser) = "ok"
         /\ \/ rejectProofErr(id, bookings[id].advertiser) = "ok"
            \/ \A c \in Addresses : claimAfterTimeoutErr(id, c) = "ok"

\* the advertiser sent rejectProof and approveProof in one block: the
\* rejection was executed first and the approval failed
C17_Witness ==
  /\ Depth = 0
  /\ last.op = "approveProof" /\ last.err = "InvalidState"
  /\ last.caller = bookings[last.id].advertiser
  /\ bookings[last.id].state = Rejected
  /\ now = bookings[last.id].proofSubmittedAt

\* C18: a successful fundBooking(id, wallOwner, installer, metadataHash)
\* with value v by a caller leaves the booking of that id with advertiser =
\* caller, wallOwner and installer as given, amount = v, state = Funded,
\* fundedAt = now, proofDeadlineSec = 14 days, disputeWindowSec = 7 days,
\* proofSubmittedAt = 0, proofContentHash = 0 and metadataHash as given,
\* raises the value the ledger holds by exactly v, and touches no other
\* booking and sends nothing.
C18_FundingCreates ==
  [][ (last'.op = "fundBooking" /\ last'.err = "ok" /\ ~Created(last'.id)) =>
        \A p \in Parties, m \in MetadataHashes, v \in Values :
          fundBooking(p[1], last'.id, p[2], p[3], m, v) =>
            /\ v \in 1..MAX_UINT96
            /\ last'.caller = p[1]
            /\ bookings' = [bookings EXCEPT ![last'.id] =
                 [advertiser |-> p[1], wallOwner |-> p[2], installer |-> p[3],
                  amount |-> v, state |-> "Funded", fundedAt |-> now,
                  proofDeadlineSec |-> 14 * 86400,
                  disputeWindowSec |-> 7 * 86400,
                  proofSubmittedAt |-> 0, proofContentHash |-> 0,
                  metadataHash |-> m]]
            /\ balance' = balance + v
            /\ transfers' = transfers
            /\ now' = now ]_vars

\* the largest value that fits was funded, one second after the first block
C18_Witness ==
  /\ Depth = 0
  /\ last.op = "fundBooking" /\ last.err = "ok"
  /\ now = StartTime + 1
  /\ bookings[last.id] =
       [advertiser |-> last.caller, wallOwner |-> 2, installer |-> 3,
        amount |-> MAX_UINT96, state |-> Funded, fundedAt |-> now,
        proofDeadlineSec |-> 14 * DAY, disputeWindowSec |-> 7 * DAY,
        proofSubmittedAt |-> 0, proofContentHash |-> ZeroHash,
        metadataHash |-> HashB]
  /\ balance = MAX_UINT96

\* what a fundBooking on an unused id answers: ZeroValue for no value,
\* Unauthorized for a null wallOwner or installer, ZeroValue for a value
\* that does not fit the amount field, in this order of precedence
UnusedIdErr(wallOwner, installer, value) ==
  IF value = 0 THEN "ZeroValue"
  ELSE IF wallOwner = NullAddress \/ installer = NullAddress THEN "Unauthorized"
  ELSE IF value > MAX_UINT96 THEN "ZeroValue"
  ELSE "ok"

\* C19: on an unused id fundBooking fails with ZeroValue when the value is
\* 0, with Unauthorized when wallOwner or installer is the null address (and
\* the value is not 0), and with ZeroValue when the value exceeds the
\* largest amount (and neither address is null); such a call creates no
\* booking, logs nothing and leaves the value held as it was, the id stays
\* unused, and a funding call with a fitting nonzero value and non-null
\* addresses passes on it.
C19_FundingErrors ==
  /\ [](\A id \in BookingIds :
          ~Created(id) =>
            /\ bookings[id] = ZeroBooking
            /\ events[id] = <<>>
            /\ \A w \in Addresses \cup {NullAddress},
                  i \in Addresses \cup {NullAddress}, v \in Values :
                 fundBookingErr(id, w, i, v) = UnusedIdErr(w, i, v)
            /\ \A w \in Addresses, i \in Addresses, v \in 1..MAX_UINT96 :
                 fundBookingErr(id, w, i, v) = "ok")
  /\ [][ (last'.op = "fundBooking" /\ ~Created(last'.id)) =>
           \A p \in Parties, m \in MetadataHashes, v \in Values :
             fundBooking(p[1], last'.id, p[2], p[3], m, v) =>
               /\ last'.err = UnusedIdErr(p[2], p[3], v)
               /\ last'.err # "ok" =>
                    /\ SameWorld
                    /\ bookings'[last'.id] = ZeroBooking ]_vars

\* a funding call with a null address failed on an id that is still unused
\* and open to a valid funding
C19_Witness ==
  /\ last.op = "fundBooking" /\ last.err = "Unauthorized"
  /\ ~Created(last.id)
  /\ bookings[last.id] = ZeroBooking
  /\ balance = 0
  /\ fundBookingErr(last.id, 2, 3, MAX_UINT96) = "ok"

\* the errors a call reverts with before it makes any external call
GuardErrors ==
  {"ZeroValue", "AlreadyExists", "Unauthorized", "InvalidState",
   "ProofDeadlineMissed", "ProofDeadlineNotReached",
   "DisputeWindowOpen", "DisputeWindowClosed"}

IsPrefix(p, q) == Len(p) <= Len(q) /\ SubSeq(q, 1, Len(p)) = p

\* C20: a call that fails with ZeroValue, AlreadyExists, Unauthorized,
\* InvalidState, ProofDeadlineMissed, ProofDeadlineNotReached,
\* DisputeWindowOpen or DisputeWindowClosed changes no booking, not the value
\* held, no log and sends nothing; a call that fails with TransferFailed
\* leaves every booking, the value held, the event log and the transfers on
\* record as they were when it was made: its booking is back in the state
\* the call requires with its amount, nothing it or a call made from inside
\* its transfer logged or sent remains, and the value held is again the sum
\* of the amounts.
C20_FailuresChangeNothing ==
  /\ [](last.op # "none" =>
          last.err \in GuardErrors \cup {"TransferFailed", "pending", "ok"})
  /\ [][ /\ last'.err \in GuardErrors =>
              (SameWorld /\ stack' = stack /\ now' = now)
         /\ (last'.err = "TransferFailed" /\ Depth' = Depth) => SameWorld
         /\ Undo =>
              /\ World' = Top.saved
              /\ last'.op = Top.op /\ last'.id = Top.id /\ last'.caller = Top.caller
              /\ bookings'[Top.id].amount = Top.amt
              /\ bookings'[Top.id].state =
                   (IF Top.op = "reclaimExpiredBooking" THEN Funded ELSE ProofSubmitted)
              /\ transfers'[Top.id] = <<>>
              /\ \A id \in BookingIds :
                   /\ IsPrefix(events'[id], events[id])
                   /\ IsPrefix(transfers'[id], transfers[id])
              /\ balance' = SumOver(BookingIds,
                              [id \in BookingIds |-> bookings'[id].amount])
              /\ now' = now ]_vars

\* the wallOwner refused the payment of a claim after the window, with a
\* second booking funded beside it
C20_Witness ==
  /\ Depth = 0
  /\ last.op = "claimAfterTimeout" /\ last.err = "TransferFailed"
  /\ bookings[last.id].state = ProofSubmitted
  /\ \E id \in BookingIds \ {last.id} : bookings[id].state = Funded
  /\ balance = TotalHeld
  /\ balance > bookings[last.id].amount
  /\ transfers[last.id] = <<>>

\* C21: a successful submitProof(id, h) sets state = ProofSubmitted,
\* proofContentHash = h and proofSubmittedAt = now and leaves the amount,
\* every other field, the value held and the transfers as they were; from
\* then on submitProof fails with InvalidState for every caller, the
\* proofSubmittedAt on record never changes, and the proof hash stays as
\* long as the booking is ProofSubmitted or Approved.
C21_SubmitProofEffect ==
  /\ [](\A id \in BookingIds :
          (Created(id) /\ bookings[id].state # Funded) =>
            \A c \in Addresses : submitProofErr(id, c) = "InvalidState")
  /\ [][ /\ (last'.op = "submitProof" /\ last'.err = "ok") =>
              \A c \in Addresses, h \in Hashes :
                submitProof(c, last'.id, h) =>
                  /\ bookings[last'.id].state = Funded
                  /\ c = bookings[last'.id].installer
                  /\ bookings' = [bookings EXCEPT
                       ![last'.id].state = "ProofSubmitted",
                       ![last'.id].proofContentHash = h,
                       ![last'.id].proofSubmittedAt = now]
                  /\ bookings'[last'.id].amount = bookings[last'.id].amount
                  /\ balance' = balance
                  /\ transfers' = transfers
                  /\ now' = now
         /\ \A id \in BookingIds :
              bookings[id].state \in {ProofSubmitted, Approved, Rejected} =>
                /\ bookings'[id].proofSubmittedAt = bookings[id].proofSubmittedAt
                /\ ({bookings[id].state, bookings'[id].state}
                      \subseteq {ProofSubmitted, Approved}) =>
                     bookings'[id].proofContentHash = bookings[id].proofContentHash
       ]_vars

\* the installer tried to submit again, a second after the first proof and
\* inside the proof deadline
C21_Witness ==
  /\ last.op = "submitProof" /\ last.err = "InvalidState"
  /\ last.caller = bookings[last.id].installer
  /\ bookings[last.id].state = ProofSubmitted
  /\ now = bookings[last.id].proofSubmittedAt + 1
  /\ now <= DeadlineEnd(last.id)

\* the hash the installer submitted, as logged in ProofSubmitted
SubmittedHash(id) == EventsNamed(id, "ProofSubmitted")[1].proofContentHash

\* C22 (hash slot reuse): a rejectProof(id, r) that got past its guards
\* leaves proofContentHash = r in place of the submitted proof hash, and a
\* Rejected booking keeps it; a booking that is ProofSubmitted or Approved,
\* by approveProof or by claimAfterTimeout, has the hash the installer
\* submitted.
C22_HashSlot ==
  /\ [](\A id \in BookingIds :
          bookings[id].state \in {ProofSubmitted, Approved} =>
            /\ Len(EventsNamed(id, "ProofSubmitted")) = 1
            /\ bookings[id].proofContentHash = SubmittedHash(id))
  /\ []((last.op \in {"approveProof", "claimAfterTimeout"}
           /\ last.err \in {"pending", "ok"}) =>
          /\ bookings[last.id].state = Approved
          /\ bookings[last.id].proofContentHash = SubmittedHash(last.id))
  /\ [][ /\ (last'.op = "rejectProof" /\ last'.err = "pending") =>
              \A c \in Addresses, r \in Hashes :
                rejectProof(c, last'.id, r) =>
                  /\ bookings'[last'.id].state = Rejected
                  /\ bookings'[last'.id].proofContentHash = r
         /\ \A id \in BookingIds :
              (bookings[id].state = Rejected /\ bookings'[id].state = Rejected)
                => bookings'[id].proofContentHash = bookings[id].proofContentHash
       ]_vars

\* a rejection whose reason hash differs from the proof hash it replaced
C22_Witness ==
  /\ Depth = 0
  /\ last.op = "rejectProof" /\ last.err = "ok"
  /\ bookings[last.id].state = Rejected
  /\ SubmittedHash(last.id) = HashA
  /\ bookings[last.id].proofContentHash # SubmittedHash(last.id)

\* C23: a call with argument id A, whether it passes or fails, leaves the
\* record, the events and the transfers of every other id B as they were,
\* and changes the value held by exactly the change of A's amount: up by the
\* amount funded, down by the amount released, or not at all; a call whose
\* transfer is refused leaves the whole ledger as it was when the call was
\* made.
C23_OtherIdsUntouched ==
  [][ /\ (Depth' >= Depth /\ last'.op # "none") =>
           LET A == last'.id IN
           /\ \A B \in BookingIds \ {A} :
                /\ bookings'[B] = bookings[B]
                /\ events'[B] = events[B]
                /\ transfers'[B] = transfers[B]
           /\ balance' - balance = bookings'[A].amount - bookings[A].amount
           /\ \/ balance' = balance
              \/ /\ last'.op = "fundBooking" /\ last'.err = "ok"
                 /\ balance' - balance =
                      SeqSum(SelectSeq(events'[A], LAMBDA e : e.name = "BookingFunded"))
              \/ /\ last'.op \in TerminalOps /\ last'.err = "pending"
                 /\ balance - balance' = FundedOf(A)
                 /\ transfers'[A] = << [to |-> transfers'[A][1].to,
                                        amount |-> FundedOf(A)] >>
      /\ (Depth' < Depth /\ last'.err = "ok") => SameWorld
      /\ Undo => World' = Top.saved
    ]_vars

\* booking 2 was rejected and refunded while booking 1, funded with another
\* amount, waits with its proof
C23_Witness ==
  /\ Depth = 0
  /\ last.op = "rejectProof" /\ last.id = 2 /\ last.err = "ok"
  /\ bookings[2].state = Rejected
  /\ bookings[1].state = ProofSubmitted
  /\ bookings[1].amount # FundedOf(2)
  /\ balance = bookings[1].amount

\* the names of the events emitted for a booking, in order
EventNames(id) == [k \in 1..Len(events[id]) |-> events[id][k].name]

\* C24 (event log per id): the events of an id are, in order, a prefix of
\* BookingFunded, ProofSubmitted, FundsReleased or the sequence
\* BookingFunded, FundsReleased of the Expired path, as far as the booking
\* has got: one BookingFunded iff it is created, one ProofSubmitted iff
\* proof was submitted, one FundsReleased iff it is terminal; every step of
\* a call that changes a booking appends exactly one event to its log and
\* no other step appends any, a call that fails in its guards emits
\* nothing, and of a call whose transfer is refused no event remains.
C24_EventLog ==
  /\ [](\A id \in BookingIds :
          LET b == bookings[id] IN
          /\ EventNames(id) =
               (IF ~Created(id) THEN <<>>
                ELSE IF b.state = Funded THEN <<"BookingFunded">>
                ELSE IF b.state = ProofSubmitted
                  THEN <<"BookingFunded", "ProofSubmitted">>
                ELSE IF b.state = Expired
                  THEN <<"BookingFunded", "FundsReleased">>
                ELSE <<"BookingFunded", "ProofSubmitted", "FundsReleased">>)
          /\ Released(id) = 1 <=> b.state \in TerminalStates
          /\ Released(id) = 1 =>
               events[id][Len(events[id])].finalState = b.state)
  /\ [][ /\ ~Undo =>
              \A id \in BookingIds :
                /\ IsPrefix(events[id], events'[id])
                /\ Len(events'[id]) =
                     (IF bookings'[id] # bookings[id]
                      THEN Len(events[id]) + 1 ELSE Len(events[id]))
         /\ last'.err \in GuardErrors => events' = events
         /\ Undo =>
              /\ \A id \in BookingIds : IsPrefix(events'[id], events[id])
              /\ Len(events'[last'.id]) = Len(events[last'.id]) - 1
       ]_vars

\* the log of a booking reclaimed after its proof deadline
C24_Witness ==
  /\ Depth = 0
  /\ EventNames(1) = <<"BookingFunded", "FundsReleased">>
  /\ events[1][2].finalState = Expired
  /\ bookings[1].state = Expired

\* what a reader of the events alone knows of a booking after the event e
Apply(r, e) ==
  IF e.name = "BookingFunded"
    THEN [state |-> Funded, amount |-> e.amount, advertiser |-> e.advertiser,
          wallOwner |-> e.wallOwner, installer |-> e.installer,
          metadataHash |-> e.metadataHash, proofSubmittedAt |-> 0]
  ELSE IF e.name = "ProofSubmitted"
    THEN [r EXCEPT !.state = ProofSubmitted, !.proofSubmittedAt = e.submittedAt]
  ELSE [r EXCEPT !.state = e.finalState, !.amount = 0]

RECURSIVE Replay(_)
Replay(q) ==
  IF q = <<>> THEN [k \in {} |-> 0]
  ELSE Apply(Replay(SubSeq(q, 1, Len(q) - 1)), q[Len(q)])

\* the fields of a stored booking that its events speak of
Mirrored(b) ==
  [state |-> b.state, amount |-> b.amount, advertiser |-> b.advertiser,
   wallOwner |-> b.wallOwner, installer |-> b.installer,
   metadataHash |-> b.metadataHash, proofSubmittedAt |-> b.proofSubmittedAt]

\* C25 (the event log refines the ledger): replaying the events of an id
\* gives the state stored for it, together with its amount, parties,
\* metadata hash and proof time, and an id without events is not created;
\* every FundsReleased event carries as recipient the address the value was
\* sent to, as amount the amount that was funded and sent, which is not 0,
\* and as finalState the state stored for the booking.
C25_LogRefinesLedger ==
  \A id \in BookingIds :
    /\ events[id] = <<>> <=> ~Created(id)
    /\ Created(id) => Replay(events[id]) = Mirrored(bookings[id])
    /\ \A k \in 1..Len(events[id]) :
         LET e == events[id][k] IN
         e.name = "FundsReleased" =>
           /\ transfers[id] = << [to |-> e.recipient, amount |-> e.amount] >>
           /\ e.amount = FundedOf(id)
           /\ e.amount > 0
           /\ bookings[id].amount = 0
           /\ e.finalState = bookings[id].state
           /\ e.recipient = (IF e.finalState = Approved
                             THEN bookings[id].wallOwner
                             ELSE bookings[id].advertiser)

\* the log of a booking claimed after its dispute window replays to Approved
C25_Witness ==
  /\ Depth = 0
  /\ last.op = "claimAfterTimeout" /\ last.err = "ok"
  /\ Len(events[last.id]) = 3
  /\ events[last.id][3] =
       FundsReleasedEvent(bookings[last.id].wallOwner, MAX_UINT96, Approved)
  /\ Replay(events[last.id]).state = Approved
  /\ bookings[last.id].state = Approved

\* ---------------------------------------------------------- view functions
\* mutant: canClaimTimeout without the state test
canClaimTimeout_NoStateCheck(id) ==
  now > bookings[id].proofSubmittedAt + bookings[id].disputeWindowSec

canClaimTimeout(id) ==
  IF bookings[id].state # ProofSubmitted THEN FALSE
  ELSE now > bookings[id].proofSubmittedAt + bookings[id].disputeWindowSec

\* mutant: disputeWindowEndsAt without the proofSubmittedAt == 0 test
disputeWindowEndsAt_NoZeroCheck(id) ==
  bookings[id].proofSubmittedAt + bookings[id].disputeWindowSec

disputeWindowEndsAt(id) ==
  IF bookings[id].proofSubmittedAt = 0 THEN 0
  ELSE bookings[id].proofSubmittedAt + bookings[id].disputeWindowSec

proofDeadlineAt(id) ==
  IF bookings[id].fundedAt = 0 THEN 0
  ELSE bookings[id].fundedAt + bookings[id].proofDeadlineSec

\* C26: canClaimTimeout(id) is true exactly when the booking is
\* ProofSubmitted and now > proofSubmittedAt + disputeWindowSec, which is
\* exactly when claimAfterTimeout(id) passes its guards, for every caller;
\* it is false for an id never funded, for a Funded booking and for a
\* terminal one.
C26_CanClaimTimeout ==
  \A id \in BookingIds :
    /\ canClaimTimeout(id) <=>
         (bookings[id].state = ProofSubmitted /\ Created(id) /\ now > WindowEnd(id))
    /\ \A c \in Addresses :
         canClaimTimeout(id) <=> claimAfterTimeoutErr(id, c) = "ok"
    /\ ~Created(id) => ~canClaimTimeout(id)
    /\ (Created(id) /\ bookings[id].state \in {Funded} \cup TerminalStates)
         => ~canClaimTimeout(id)
    /\ (last.id = id /\ last.op = "claimAfterTimeout") =>
         /\ last.err = "DisputeWindowOpen" =>
              (~canClaimTimeout(id) /\ bookings[id].state = ProofSubmitted)
         /\ last.err = "TransferFailed" => canClaimTimeout(id)

\* the first second after the dispute window of a booking with proof
C26_Witness ==
  /\ Depth = 0
  /\ bookings[1].state = ProofSubmitted
  /\ now = WindowEnd(1) + 1
  /\ canClaimTimeout(1)
  /\ \A c \in Addresses : claimAfterTimeoutErr(1, c) = "ok"

\* C27: disputeWindowEndsAt(id) is 0 exactly when no proof has been
\* submitted for id (never funded, Funded or Expired) and otherwise is
\* proofSubmittedAt + disputeWindowSec, seven days after the time logged in
\* ProofSubmitted, also once the booking is Approved or Rejected;
\* proofDeadlineAt(id) is 0 exactly when id was never funded and otherwise
\* is fundedAt + proofDeadlineSec.
C27_ViewTimes ==
  \A id \in BookingIds :
    LET b == bookings[id]
        submitted == EventsNamed(id, "ProofSubmitted")
    IN
    /\ disputeWindowEndsAt(id) = 0 <=> submitted = <<>>
    /\ disputeWindowEndsAt(id) = 0 <=>
         (~Created(id) \/ b.state \in {Funded, Expired})
    /\ submitted # <<>> =>
         /\ b.state \in {ProofSubmitted, Approved, Rejected}
         /\ disputeWindowEndsAt(id) = b.proofSubmittedAt + b.disputeWindowSec
         /\ disputeWindowEndsAt(id) = submitted[1].submittedAt + 7 * 86400
    /\ proofDeadlineAt(id) = 0 <=> ~Created(id)
    /\ Created(id) =>
         /\ proofDeadlineAt(id) = b.fundedAt + b.proofDeadlineSec
         /\ proofDeadlineAt(id) >= StartTime + 14 * 86400

\* a rejected booking still shows when its dispute window ended
C27_Witness ==
  /\ Depth = 0
  /\ bookings[1].state = Rejected
  /\ disputeWindowEndsAt(1) = bookings[1].proofSubmittedAt + 7 * DAY
  /\ proofDeadlineAt(1) = bookings[1].fundedAt + 14 * DAY
  /\ bookings[1].proofSubmittedAt > bookings[1].fundedAt

\* C28 (approveProof has no time gate): for a ProofSubmitted booking the
\* advertiser's approveProof passes its guards at every time, inside the
\* dispute window and after it; after the window it and claimAfterTimeout
\* by any caller are both enabled, and whichever of the two is made sets the
\* state Approved and sends the amount to the wallOwner.
C28_ApproveAnyTime ==
  /\ \A id \in BookingIds :
       (Created(id) /\ bookings[id].state = ProofSubmitted) =>
         /\ approveProofErr(id, bookings[id].advertiser) = "ok"
         /\ now > WindowEnd(id) =>
              \A c \in Addresses : claimAfterTimeoutErr(id, c) = "ok"
  /\ (last.op = "approveProof" /\ Failed) =>
       last.err \in {"InvalidState", "Unauthorized"}
  /\ (last.op \in {"approveProof", "claimAfterTimeout"}
        /\ last.err \in {"pending", "ok"}) =>
       /\ bookings[last.id].state = Approved
       /\ transfers[last.id] =
            << [to |-> bookings[last.id].wallOwner, amount |-> FundedOf(last.id)] >>

\* the advertiser approved after the dispute window had elapsed
C28_Witness ==
  /\ Depth = 0
  /\ last.op = "approveProof" /\ last.err = "ok"
  /\ now > WindowEnd(last.id)
  /\ bookings[last.id].state = Approved
  /\ transfers[last.id][1].to = bookings[last.id].wallOwner

\* C29 (amount representation): a fundBooking with value v is accepted only
\* for 0 < v <= type(uint96).max, and then the stored amount and the amount
\* in BookingFunded are exactly v and the value held rises by v; the amount
\* stays v while the booking is live and the value released is v; every
\* value above type(uint96).max is rejected, on any id and with any
\* addresses.
C29_AmountExact ==
  /\ [](\A id \in BookingIds :
          /\ \A w \in Addresses, i \in Addresses,
                v \in {MAX_UINT96 + 1, MAX_UINT96 + 2, 2 * (MAX_UINT96 + 1) + 1} :
               fundBookingErr(id, w, i, v) \in {"ZeroValue", "AlreadyExists"}
          /\ Created(id) =>
               /\ FundedOf(id) \in 1..MAX_UINT96
               /\ events[id][1].amount = FundedOf(id)
               /\ bookings[id].state \in {Funded, ProofSubmitted}
                    => bookings[id].amount = FundedOf(id)
               /\ transfers[id] # <<>> =>
                    /\ Len(transfers[id]) = 1
                    /\ transfers[id][1].amount = FundedOf(id))
  /\ [][ (last'.op = "fundBooking" /\ last'.err = "ok" /\ ~Created(last'.id)) =>
           \A p \in Parties, m \in MetadataHashes, v \in Values :
             fundBooking(p[1], last'.id, p[2], p[3], m, v) =>
               /\ 0 < v /\ v <= MAX_UINT96
               /\ bookings'[last'.id].amount = v
               /\ events'[last'.id] = << [name |-> "BookingFunded",
                    advertiser |-> p[1], wallOwner |-> p[2], installer |-> p[3],
                    amount |-> v, metadataHash |-> m] >>
               /\ balance' = balance + v ]_vars

\* the largest amount that fits, funded, logged and paid out in full
C29_Witness ==
  /\ Depth = 0
  /\ last.op = "approveProof" /\ last.err = "ok"
  /\ events[last.id][1].amount = MAX_UINT96
  /\ transfers[last.id] =
       << [to |-> bookings[last.id].wallOwner, amount |-> MAX_UINT96] >>
  /\ bookings[last.id].amount = 0

\* ============================================== POST /api/chain/sync
ledgerVars == <<bookings, balance, events, transfers, now, stack, last>>

\* the logs of one booking on the chain, in order
LogsOf(id) == SelectSeq(chainLogs, LAMBDA l : l.bookingId = id)

\* a transaction of the contract emits its event into the block being built:
\* for each booking BookingFunded, then ProofSubmitted, then FundsReleased
\* with Approved or Rejected, or FundsReleased with Expired after
\* BookingFunded
EmitLog(id, eventName, finalState) ==
  /\ head < MaxBlock
  /\ LET mine == LogsOf(id)
         prev == IF mine = <<>> THEN "none" ELSE mine[Len(mine)].eventName
     IN
     \/ prev = "none" /\ eventName = "BookingFunded" /\ finalState = StateNum(Funded)
     \/ /\ prev = "BookingFunded" /\ eventName = "ProofSubmitted"
        /\ finalState = StateNum(ProofSubmitted)
     \/ /\ prev = "ProofSubmitted" /\ eventName = "FundsReleased"
        /\ finalState \in {StateNum(Approved), StateNum(Rejected)}
     \/ /\ prev = "BookingFunded" /\ eventName = "FundsReleased"
        /\ finalState = StateNum(Expired)
  /\ chainLogs' = Append(chainLogs,
       [blockNumber |-> head + 1,
        logIndex |-> Len(SelectSeq(chainLogs, LAMBDA l : l.blockNumber = head + 1)),
        txHash |-> Len(chainLogs) + 1,
        eventName |-> eventName, bookingId |-> id, finalState |-> finalState,
        submittedAt |-> IF eventName = "ProofSubmitted" THEN now ELSE 0])
  /\ UNCHANGED <<head, chainEvent, dbStatus, disputeDeadline, run>>
  /\ UNCHANGED ledgerVars

\* the block being built is mined
MineBlock ==
  /\ head < MaxBlock
  /\ head' = head + 1
  /\ UNCHANGED <<chainLogs, chainEvent, dbStatus, disputeDeadline, run>>
  /\ UNCHANGED ledgerVars

\* client.getLogs({event, fromBlock, toBlock})
getLogs(eventName, fromBlock, toBlock) ==
  SelectSeq(chainLogs, LAMBDA l :
    /\ l.eventName = eventName
    /\ fromBlock <= l.blockNumber /\ l.blockNumber <= toBlock
    /\ l.blockNumber <= head)

RECURSIVE MaxBlockNumber(_)
MaxBlockNumber(rows) ==
  IF rows = <<>> THEN 0
  ELSE LET m == MaxBlockNumber(Tail(rows)) IN
       IF Head(rows).blockNumber > m THEN Head(rows).blockNumber ELSE m

\* the request arrives: secret check, cursor, chain head, empty range
POST(authorized) ==
  /\ run.pc = "idle"
  /\ IF ~authorized THEN run' = [Idle EXCEPT !.response = "401"]
     ELSE LET fromBlock == IF chainEvent = <<>> THEN 0
                           ELSE MaxBlockNumber(chainEvent) + 1
              toBlock   == head
          IN
          IF fromBlock > toBlock
          THEN run' = [Idle EXCEPT !.fromBlock = fromBlock, !.toBlock = toBlock,
                                   !.response = "Already up to date"]
          ELSE run' = [Idle EXCEPT !.pc = "getLogs", !.fromBlock = fromBlock,
                                   !.toBlock = toBlock, !.start = fromBlock]
  /\ UNCHANGED <<chainLogs, head, chainEvent, dbStatus, disputeDeadline>>
  /\ UNCHANGED ledgerVars

\* the head of the batch loop: the three getLogs calls of one batch, or the
\* response when the range is done
GetLogs ==
  /\ run.pc = "getLogs"
  /\ IF run.start > run.toBlock
     THEN run' = [run EXCEPT !.pc = "idle", !.response = "synced"]
     ELSE LET end == IF run.start + BATCH - 1 < run.toBlock
                     THEN run.start + BATCH - 1 ELSE run.toBlock
          IN run' = [run EXCEPT
               !.pc = "funded",
               !.fundedLogs   = getLogs("BookingFunded", run.start, end),
               !.proofLogs    = getLogs("ProofSubmitted", run.start, end),
               !.releasedLogs = getLogs("FundsReleased", run.start, end)]
  /\ UNCHANGED <<chainLogs, head, chainEvent, dbStatus, disputeDeadline>>
  /\ UNCHANGED ledgerVars

\* prisma.chainEvent.upsert with update: {}
upsert(log) ==
  IF \E k \in 1..Len(chainEvent) :
       /\ chainEvent[k].txHash = log.txHash
       /\ chainEvent[k].logIndex = log.logIndex
  THEN chainEvent
  ELSE Append(chainEvent,
         [txHash |-> log.txHash, blockNumber |-> log.blockNumber,
          logIndex |-> log.logIndex, eventName |-> log.eventName,
          bookingIdHex |-> log.bookingId])

\* prisma.booking.updateMany({where: {chainBookingId}, data: {status}})
updateMany(chainBookingId, status) ==
  [id \in DOMAIN dbStatus |->
     IF id = chainBookingId THEN status ELSE dbStatus[id]]

\* mutant: the FundsReleased loop runs before the ProofSubmitted loop
AfterLoop_ReleasedBeforeProof(pc) ==
  CASE pc = "funded" -> "released" [] pc = "released" -> "proof"
    [] pc = "proof" -> "getLogs"

\* the order of the three loops over the logs of a batch
AfterLoop(pc) ==
  CASE pc = "funded" -> "proof" [] pc = "proof" -> "released"
    [] pc = "released" -> "getLogs"

\* where the run goes when the loop `pc` has no log left
Advance(pc) ==
  [run EXCEPT !.pc = AfterLoop(pc),
              !.start = IF AfterLoop(pc) = "getLogs" THEN @ + BATCH ELSE @]

ProcessFunded ==
  /\ run.pc = "funded"
  /\ IF run.fundedLogs = <<>>
     THEN run' = Advance("funded") /\ UNCHANGED <<chainEvent, dbStatus>>
     ELSE LET log == Head(run.fundedLogs) IN
          /\ chainEvent' = upsert(log)
          /\ dbStatus' = updateMany(log.bookingId, "FUNDED")
          /\ run' = [run EXCEPT !.fundedLogs = Tail(@), !.synced = @ + 1]
  /\ UNCHANGED <<chainLogs, head, disputeDeadline>>
  /\ UNCHANGED ledgerVars

\* Date.now(), in seconds: the server's clock reads the time of the chain
DateNow == now

ProcessProof ==
  /\ run.pc = "proof"
  /\ IF run.proofLogs = <<>>
     THEN /\ run' = Advance("proof")
          /\ UNCHANGED <<chainEvent, dbStatus, disputeDeadline>>
     ELSE LET log == Head(run.proofLogs) IN
          /\ chainEvent' = upsert(log)
          /\ dbStatus' = updateMany(log.bookingId, "PROOF_SUBMITTED")
          /\ disputeDeadline' =
               [id \in DOMAIN disputeDeadline |->
                  IF id = log.bookingId THEN DateNow + 7 * DAY
                  ELSE disputeDeadline[id]]
          /\ run' = [run EXCEPT !.proofLogs = Tail(@), !.synced = @ + 1]
  /\ UNCHANGED <<chainLogs, head>>
  /\ UNCHANGED ledgerVars

\* finalState === 2 ? 'APPROVED' : finalState === 3 ? 'REJECTED' : 'EXPIRED'
newStatus(finalState) ==
  IF finalState = 2 THEN "APPROVED"
  ELSE IF finalState = 3 THEN "REJECTED" ELSE "EXPIRED"

ProcessReleased ==
  /\ run.pc = "released"
  /\ IF run.releasedLogs = <<>>
     THEN run' = Advance("released") /\ UNCHANGED <<chainEvent, dbStatus>>
     ELSE LET log == Head(run.releasedLogs) IN
          /\ chainEvent' = upsert(log)
          /\ dbStatus' = updateMany(log.bookingId, newStatus(log.finalState))
          /\ run' = [run EXCEPT !.releasedLogs = Tail(@), !.synced = @ + 1]
  /\ UNCHANGED <<chainLogs, head, disputeDeadline>>
  /\ UNCHANGED ledgerVars

\* an awaited call throws: the catch block answers 500
Abort ==
  /\ run.pc # "idle"
  /\ run' = [Idle EXCEPT !.fromBlock = run.fromBlock, !.toBlock = run.toBlock,
                         !.response = "500"]
  /\ UNCHANGED <<chainLogs, head, chainEvent, dbStatus, disputeDeadline>>
  /\ UNCHANGED ledgerVars

EventNames3 == {"BookingFunded", "ProofSubmitted", "FundsReleased"}

NextSync ==
  \/ \E id \in BookingIds, n \in EventNames3, f \in 0..4 : EmitLog(id, n, f)
  \/ MineBlock
  \/ \E a \in BOOLEAN : POST(a)
  \/ GetLogs
  \/ ProcessFunded
  \/ ProcessProof
  \/ ProcessReleased
  \/ Abort

SpecSync == Init /\ [][NextSync]_vars

\* the status the mirror shows for a lifecycle event
StatusOfLog(l) ==
  CASE l.eventName = "BookingFunded"  -> "FUNDED"
    [] l.eventName = "ProofSubmitted" -> "PROOF_SUBMITTED"
    [] l.eventName = "FundsReleased" /\ l.finalState = 2 -> "APPROVED"
    [] l.eventName = "FundsReleased" /\ l.finalState = 3 -> "REJECTED"
    [] l.eventName = "FundsReleased" /\ l.finalState = 4 -> "EXPIRED"

\* the run answered with its synced count
Completed == run.pc = "idle" /\ run.response = "synced"

InRange(l) == run.fromBlock <= l.blockNumber /\ l.blockNumber <= run.toBlock

RowsFor(l) ==
  {k \in 1..Len(chainEvent) :
     /\ chainEvent[k].txHash = l.txHash
     /\ chainEvent[k].logIndex = l.logIndex}

\* C30: after a sync run over fromBlock..toBlock has completed without error,
\* every BookingFunded, ProofSubmitted and FundsReleased event of that range
\* has exactly one row in the event store, under its (tx hash, log index)
\* key and carrying its block, name and booking id, and every booking of the
\* database with an event in the range shows the status of the latest of
\* them: FUNDED, PROOF_SUBMITTED, or APPROVED / REJECTED / EXPIRED for
\* finalState 2 / 3 / 4, whichever way the events fall into batches.
C30_IndexerMirror ==
  Completed =>
    /\ \A i \in 1..Len(chainLogs) :
         InRange(chainLogs[i]) =>
           /\ Cardinality(RowsFor(chainLogs[i])) = 1
           /\ \A k \in RowsFor(chainLogs[i]) :
                /\ chainEvent[k].blockNumber = chainLogs[i].blockNumber
                /\ chainEvent[k].eventName = chainLogs[i].eventName
                /\ chainEvent[k].bookingIdHex = chainLogs[i].bookingId
    /\ \A id \in DbIds :
         LET mine == SelectSeq(LogsOf(id), InRange) IN
         mine # <<>> => dbStatus[id] = StatusOfLog(mine[Len(mine)])

\* a completed run of two batches in which the three events of one booking
\* fell into one block and another booking stopped at its proof
C30_Witness ==
  /\ Completed
  /\ run.toBlock - run.fromBlock >= BATCH
  /\ run.synced >= 5
  /\ \E id \in DbIds, b \in 1..MaxBlock :
       /\ Len(SelectSeq(LogsOf(id), LAMBDA l : l.blockNumber = b)) = 3
       /\ InRange(LogsOf(id)[1])
       /\ dbStatus[id] \in {"APPROVED", "REJECTED"}
  /\ \E id \in DbIds : dbStatus[id] = "PROOF_SUBMITTED"

\* the stored amounts of all bookings but one
HeldByOthers(id) ==
  SumOver(BookingIds \ {id}, [i \in BookingIds |-> bookings[i].amount])

\* C31 (solvency at every step): in every state, the states between the
\* zeroing of an amount and the return of its transfer and those inside the
\* calls a recipient makes on other ids included, the ledger holds at least
\* the sum of the stored amounts; so the value of any booking can be sent
\* (no release lacks funds), every transfer in flight was of exactly the
\* amount its own booking stored and was covered by the balance it was sent
\* from, and what it left behind covered the amounts of the other bookings.
C31_Solvency ==
  /\ balance >= TotalHeld
  /\ \A id \in BookingIds :
       /\ balance >= bookings[id].amount
       /\ balance - bookings[id].amount >= HeldByOthers(id)
  /\ \A k \in 1..Len(stack) :
       LET f == stack[k] IN
       /\ f.amt = f.saved.bookings[f.id].amount
       /\ f.saved.balance >= f.amt
       /\ f.saved.balance - f.amt >=
            SumOver(BookingIds \ {f.id},
                    [i \in BookingIds |-> f.saved.bookings[i].amount])

\* the recipient of booking 1's transfer has released booking 2 from inside
\* it: two transfers of different amounts are in flight and nothing is left
C31_Witness ==
  /\ Depth = 2
  /\ stack[1].id # stack[2].id
  /\ stack[1].amt > 0 /\ stack[2].amt > 0
  /\ stack[1].amt # stack[2].amt
  /\ stack[2].caller = stack[1].recipient
  /\ balance = 0

\* some terminal operation on id passes its guards now, for some caller,
\* and pays an address other than r
PaysOther(id, r) ==
  \E c \in Addresses :
    \/ approveProofErr(id, c) = "ok" /\ bookings[id].wallOwner # r
    \/ claimAfterTimeoutErr(id, c) = "ok" /\ bookings[id].wallOwner # r
    \/ rejectProofErr(id, c) = "ok" /\ bookings[id].advertiser # r
    \/ reclaimExpiredBookingErr(id, c) = "ok" /\ bookings[id].advertiser # r

\* the guards of id can still come out differently than they do now: its
\* proof can still be submitted, or the time limit its state is tested
\* against (proofDeadlineAt while Funded, disputeWindowEndsAt after) has not
\* passed yet
GuardsCanChange(id) ==
  \/ \E c \in Addresses : submitProofErr(id, c) = "ok"
  \/ bookings[id].state = Funded /\ now <= proofDeadlineAt(id)
  \/ bookings[id].state # Funded /\ now <= disputeWindowEndsAt(id)

\* the value of id can, now and at every later time, only be sent to r
LockedOn(id, r) ==
  /\ bookings[id].amount > 0
  /\ bookings[id].wallOwner # bookings[id].advertiser
  /\ r \in {bookings[id].wallOwner, bookings[id].advertiser}
  /\ ~PaysOther(id, r)
  /\ ~GuardsCanChange(id)

\* a booking locked on r stays locked on r in every step, except while a
\* transfer of its value to r is in flight
LockIsPermanent ==
  [][ \A id \in BookingIds, r \in Addresses :
        LockedOn(id, r) =>
          \/ LockedOn(id, r)'
          \/ \E k \in 1..Len(stack') :
               stack'[k].id = id /\ stack'[k].recipient = r ]_vars

\* C32 as stated (funds are never permanently locked): in every reachable
\* state, every booking with a nonzero amount and two different recipient
\* addresses has, whichever of the two refuses every transfer, a terminal
\* operation that pays the other one and passes its guards for some caller,
\* now or at a later time.
C32_NeverLocked ==
  \A id \in BookingIds :
    \A r \in {bookings[id].wallOwner, bookings[id].advertiser} :
      ~LockedOn(id, r)

\* what each operation requires of the state, of the caller and of the time
StateWrong(op, id) ==
  bookings[id].state #
    (IF op \in {"submitProof", "reclaimExpiredBooking"} THEN Funded
     ELSE ProofSubmitted)

CallerWrong(op, id, caller) ==
  CASE op = "submitProof"       -> caller # bookings[id].installer
    [] op = "claimAfterTimeout" -> FALSE
    [] OTHER                    -> caller # bookings[id].advertiser

TimeWrong(op, id) ==
  CASE op = "submitProof"           -> now > DeadlineEnd(id)
    [] op = "approveProof"          -> FALSE
    [] op = "rejectProof"           -> now > WindowEnd(id)
    [] op = "claimAfterTimeout"     -> now <= WindowEnd(id)
    [] op = "reclaimExpiredBooking" -> now <= DeadlineEnd(id)

TimeError(op) ==
  CASE op = "submitProof"           -> "ProofDeadlineMissed"
    [] op = "rejectProof"           -> "DisputeWindowClosed"
    [] op = "claimAfterTimeout"     -> "DisputeWindowOpen"
    [] op = "reclaimExpiredBooking" -> "ProofDeadlineNotReached"

\* state, then caller, then time
Precedence(op, id, caller) ==
  IF StateWrong(op, id) THEN "InvalidState"
  ELSE IF CallerWrong(op, id, caller) THEN "Unauthorized"
  ELSE IF TimeWrong(op, id) THEN TimeError(op)
  ELSE "ok"

\* value 0, then id in use, then a null address, then value over uint96
FundingPrecedence(id, wallOwner, installer, value) ==
  IF value = 0 THEN "ZeroValue"
  ELSE IF Created(id) THEN "AlreadyExists"
  ELSE IF wallOwner = NullAddress \/ installer = NullAddress THEN "Unauthorized"
  ELSE IF value > MAX_UINT96 THEN "ZeroValue"
  ELSE "ok"

GuardedOps ==
  {"submitProof", "approveProof", "rejectProof", "claimAfterTimeout",
   "reclaimExpiredBooking"}

\* C33 (guard precedence): in every state and for every caller, each of
\* submitProof, approveProof, rejectProof, claimAfterTimeout and
\* reclaimExpiredBooking gives InvalidState if the state is wrong, else
\* Unauthorized if the caller is wrong, else its time error, else passes, and
\* a call that failed in its guards failed with that error; fundBooking
\* gives ZeroValue for value 0, else AlreadyExists for an id in use, else
\* Unauthorized for a null wallOwner or installer, else ZeroValue for a value
\* above the largest amount, and a funding call that failed failed with the
\* error this order gives for its caller and some arguments.
C33_GuardPrecedence ==
  [](/\ \A op \in GuardedOps, id \in BookingIds, c \in Addresses :
          OpErr(op, id, c) = Precedence(op, id, c)
     /\ \A id \in BookingIds, v \in Values, w \in {NullAddress, 2},
           i \in {NullAddress, 3} :
          fundBookingErr(id, w, i, v) = FundingPrecedence(id, w, i, v)
     /\ (Failed /\ last.op \in GuardedOps)
          => last.err = Precedence(last.op, last.id, last.caller)
     /\ (Failed /\ last.op = "fundBooking")
          => \E p \in Parties, v \in Values :
               /\ p[1] = last.caller
               /\ last.err = FundingPrecedence(last.id, p[2], p[3], v))

\* a reclaim that is both too early and not by the advertiser failed with
\* Unauthorized, and a funding with value 0 on a used id, with a null
\* address, gives ZeroValue
C33_Witness ==
  /\ last.op = "reclaimExpiredBooking" /\ last.err = "Unauthorized"
  /\ bookings[last.id].state = Funded /\ Created(last.id)
  /\ last.caller # bookings[last.id].advertiser
  /\ now <= DeadlineEnd(last.id)
  /\ fundBookingErr(last.id, NullAddress, 3, 0) = "ZeroValue"
  /\ fundBookingErr(last.id, NullAddress, 3, MAX_UINT96 + 1) = "AlreadyExists"

\* no funding call on id has succeeded
NeverFunded(id) == EventsNamed(id, "BookingFunded") = <<>>

\* C34 (never-funded ids are inert): an id on which no funding call has
\* succeeded has the all-zero record, which reads as state Funded with
\* amount 0, and has no event and no transfer; for every caller, at every
\* time, submitProof and reclaimExpiredBooking on it give Unauthorized and
\* approveProof, rejectProof and claimAfterTimeout give InvalidState, and the
\* last call made on it, unless it was fundBooking, failed with that error.
C34_NeverFundedInert ==
  \A id \in BookingIds :
    NeverFunded(id) =>
      /\ bookings[id] = ZeroBooking
      /\ bookings[id].state = Funded /\ bookings[id].amount = 0
      /\ events[id] = <<>>
      /\ transfers[id] = <<>>
      /\ \A k \in 1..Len(stack) : stack[k].id # id
      /\ \A c \in Addresses :
           /\ submitProofErr(id, c) = "Unauthorized"
           /\ reclaimExpiredBookingErr(id, c) = "Unauthorized"
           /\ approveProofErr(id, c) = "InvalidState"
           /\ rejectProofErr(id, c) = "InvalidState"
           /\ claimAfterTimeoutErr(id, c) = "InvalidState"
      /\ (last.id = id /\ last.op \in {"submitProof", "reclaimExpiredBooking"})
           => last.err = "Unauthorized"
      /\ (last.id = id /\ last.op \in {"approveProof", "rejectProof", "claimAfterTimeout"})
           => last.err = "InvalidState"

\* past every deadline, with the value of another booking in the ledger, a
\* reclaim on an id that was never funded has just failed
C34_Witness ==
  /\ last.op = "reclaimExpiredBooking" /\ last.err = "Unauthorized"
  /\ NeverFunded(last.id)
  /\ now > StartTime + DEFAULT_PROOF_DEADLINE
  /\ balance > 0
  /\ \E id \in BookingIds : id # last.id /\ bookings[id].amount = balance

\* C35 (evidence bookkeeping): a booking in state Funded or Expired has
\* proofContentHash = 0 and no ProofSubmitted event; a booking in state
\* ProofSubmitted, Approved or Rejected has fundedAt <= proofSubmittedAt <=
\* fundedAt + proofDeadlineSec; a booking becomes Rejected only at a time
\* <= proofSubmittedAt + disputeWindowSec and Expired only at a time >
\* fundedAt + proofDeadlineSec, by rejectProof and reclaimExpiredBooking.
C35_EvidenceBookkeeping ==
  /\ [](\A id \in BookingIds :
          LET b == bookings[id] IN
          /\ b.state \in {Funded, Expired} =>
               /\ b.proofContentHash = 0
               /\ b.proofSubmittedAt = 0
               /\ EventsNamed(id, "ProofSubmitted") = <<>>
          /\ b.state \in {ProofSubmitted, Approved, Rejected} =>
               /\ Created(id)
               /\ b.fundedAt <= b.proofSubmittedAt
               /\ b.proofSubmittedAt <= b.fundedAt + b.proofDeadlineSec
               /\ Len(EventsNamed(id, "ProofSubmitted")) = 1)
  /\ [][ \A id \in BookingIds :
           LET b == bookings'[id] IN
           /\ (bookings[id].state # Rejected /\ b.state = Rejected) =>
                /\ now' = now
                /\ now <= b.proofSubmittedAt + b.disputeWindowSec
                /\ last'.op = "rejectProof" /\ last'.id = id
           /\ (bookings[id].state # Expired /\ b.state = Expired) =>
                /\ now' = now
                /\ now > b.fundedAt + b.proofDeadlineSec
                /\ last'.op = "reclaimExpiredBooking" /\ last'.id = id ]_vars

\* proof submitted a second after the funding and rejected in the last
\* second of its dispute window
C35_Witness ==
  /\ Depth = 0
  /\ last.op = "rejectProof" /\ last.err = "ok"
  /\ bookings[last.id].state = Rejected
  /\ bookings[last.id].fundedAt < bookings[last.id].proofSubmittedAt
  /\ now = bookings[last.id].proofSubmittedAt + bookings[last.id].disputeWindowSec

\* the run answered without error: its range is done, or there was nothing
\* to do
Answered == run.pc = "idle" /\ run.response \in {"synced", "Already up to date"}

Recorded(l) == RowsFor(l) # {}

\* the run in progress may still fetch or process the log
Pending(l) ==
  /\ run.pc # "idle"
  /\ run.start <= l.blockNumber /\ l.blockNumber <= run.toBlock

\* a log without a row, in a block at or below the highest recorded block
\* and out of reach of the run in progress: every later run starts above it
Lost(l) ==
  /\ ~Recorded(l)
  /\ chainEvent # <<>>
  /\ l.blockNumber <= MaxBlockNumber(chainEvent)
  /\ ~Pending(l)

\* a lost log stays lost, whatever runs follow
LostStaysLost ==
  [][ \A i \in 1..Len(chainLogs) :
        Lost(chainLogs[i]) => Lost(chainLogs[i])' ]_vars

\* C36 as stated (no event is lost across failed runs): when a sync run has
\* answered without error, every event emitted in a block up to the head it
\* read is in the event store and every booking shows the status of its
\* latest such event, whatever runs aborted before it.
C36_NoEventLost ==
  Answered =>
    /\ \A i \in 1..Len(chainLogs) :
         chainLogs[i].blockNumber <= run.toBlock => Recorded(chainLogs[i])
    /\ \A id \in DbIds :
         LET mine == SelectSeq(LogsOf(id), LAMBDA l : l.blockNumber <= run.toBlock)
         IN mine # <<>> => dbStatus[id] = StatusOfLog(mine[Len(mine)])

\* C37 as stated (any nonzero value): on an id that has never been funded a
\* funding call passes for every nonzero value and all non-null wallOwner
\* and installer arguments, whoever the caller is.
C37_AnyNonzeroValue ==
  \A id \in BookingIds :
    NeverFunded(id) =>
      \A w \in Addresses, i \in Addresses, v \in Values \ {0} :
        fundBookingErr(id, w, i, v) = "ok"

\* C37 (first funder owns the id): on an id that has never been funded a
\* funding call passes for every value from 1 to the largest amount and all
\* non-null wallOwner and installer arguments, whoever the caller is (the
\* guards do not read the caller) and fails with ZeroValue above the largest
\* amount; the caller of the funding call that succeeded is the advertiser
\* of the booking from then on, the id is funded once, and every funding
\* call on it, by anyone, fails.
C37_FirstFunderOwns ==
  /\ [](\A id \in BookingIds :
          /\ NeverFunded(id) =>
               \A w \in Addresses, i \in Addresses :
                 /\ \A v \in 1..MAX_UINT96 : fundBookingErr(id, w, i, v) = "ok"
                 /\ \A v \in Values : v > MAX_UINT96 =>
                      fundBookingErr(id, w, i, v) = "ZeroValue"
          /\ ~NeverFunded(id) =>
               /\ Len(EventsNamed(id, "BookingFunded")) = 1
               /\ bookings[id].advertiser = events[id][1].advertiser
               /\ \A w \in Addresses, i \in Addresses, v \in Values :
                    fundBookingErr(id, w, i, v) \in {"AlreadyExists", "ZeroValue"}
          /\ (last.op = "fundBooking" /\ last.id = id) =>
               IF last.err = "ok"
               THEN /\ bookings[id].advertiser = last.caller
                    /\ events[id][1].advertiser = last.caller
               ELSE ~NeverFunded(id) =>
                      last.err \in {"AlreadyExists", "ZeroValue"})
  /\ [][ \A id \in BookingIds :
           (~NeverFunded(id) /\ ~Undo) =>
             bookings'[id].advertiser = bookings[id].advertiser ]_vars

\* address 2, which also is the wallOwner, funded the id first; the funding
\* attempt of another address on it has just failed, after the booking was
\* settled
C37_Witness ==
  /\ last.op = "fundBooking" /\ last.err = "AlreadyExists"
  /\ bookings[last.id].advertiser = 2
  /\ last.caller = 1
  /\ bookings[last.id].state \in TerminalStates
  /\ Depth = 0

\* time passes between blocks: every log of a block carries the timestamp
\* of its block
ClockTick(d) ==
  /\ \A i \in 1..Len(chainLogs) : chainLogs[i].blockNumber <= head
  /\ Tick(d)

\* the route against the chain of one booking, with time passing between
\* the blocks and between the steps of a run
NextClock ==
  \/ \E n \in EventNames3, f \in 0..4 : EmitLog(1, n, f)
  \/ MineBlock
  \/ \E a \in BOOLEAN : POST(a)
  \/ GetLogs
  \/ ProcessFunded
  \/ ProcessProof
  \/ ProcessReleased
  \/ Abort
  \/ \E d \in {1, DEFAULT_DISPUTE_WINDOW} : ClockTick(d)

SpecClock == Init /\ [][NextClock]_vars

\* the end of the dispute window on the chain, from the ProofSubmitted event
\* of the booking: submittedAt + disputeWindowSec
ChainWindowEnd(id) ==
  LET proof == SelectSeq(LogsOf(id), LAMBDA l : l.eventName = "ProofSubmitted")
  IN proof[1].submittedAt + DEFAULT_DISPUTE_WINDOW

\* C38 as stated: the disputeDeadline the route has written for a booking
\* equals submittedAt of its ProofSubmitted event + disputeWindowSec,
\* whenever the run that wrote it was executed.
C38_DeadlineMirrorsChain ==
  \A id \in DbIds :
    disputeDeadline[id] # NoDate => disputeDeadline[id] = ChainWindowEnd(id)

=============================================================================
